---- MODULE Spec2Model ----
(***************************************************************************)
(* csv-powerops: the typed predicate / ordering engine.                    *)
(*                                                                         *)
(*   backend/internal/csvops/advanced_sort.go     AdvancedSort             *)
(*   backend/internal/csvops/advanced_extract.go  AdvancedExtract          *)
(*   backend/internal/utils/utils.go              ResolveKeyIndex, ...     *)
(*                                                                         *)
(* Both entry points are synchronous functions of one request.  A state is *)
(* a request, the response (once the call has returned) and the position   *)
(* of the call.  Text is a sequence of one-character strings, so that      *)
(* trimming, case folding, splitting, parsing and byte-wise comparison are *)
(* computed and not assumed.                                               *)
(***************************************************************************)
EXTENDS Integers, Sequences, FiniteSets, TLC

VARIABLES req, res, pc

vars == <<req, res, pc>>

None == [kind |-> "none"]

(***************************************************************************)
(* Bounds of the model.                                                    *)
(***************************************************************************)
\* rows of a table handed to AdvancedSort
MaxRows == 3

\* the width, in bits, the machine integers of pagination are scaled down to
\* (Go's int has 64); offset and limit range over every integer of that width
IntBits == 4

\* rows of a table handed to AdvancedExtract
MaxFilterRows == 2

\* direct conditions of the root group of a filter
MaxConds == 2

\* subgroups of the root group of a filter
MaxSubGroups == 2

\* tables of one sort request
MaxTables == 2

\* characters of a text handed to the coercions
MaxText == 3

SeqUpTo(S, n) == UNION {[1..k -> S] : k \in 0..n}

(***************************************************************************)
(* Text.  Ord is the byte value of a character: Go compares strings        *)
(* byte-wise.  The alphabet holds no '.', '+', '_', ':' and ')'; no text   *)
(* of the requests below spells an exponent, inf, nan or a month name, and *)
(* the parsers are exact on such text.                                     *)
(***************************************************************************)
Ord ==
  (" " :> 32) @@ ("(" :> 40) @@ ("," :> 44) @@ ("-" :> 45) @@ ("/" :> 47) @@
  ("0" :> 48) @@ ("1" :> 49) @@ ("2" :> 50) @@ ("3" :> 51) @@ ("4" :> 52) @@
  ("5" :> 53) @@ ("6" :> 54) @@ ("7" :> 55) @@ ("8" :> 56) @@ ("9" :> 57) @@
  ("<" :> 60) @@ (">" :> 62) @@ ("A" :> 65) @@ ("B" :> 66) @@ ("K" :> 75) @@
  ("[" :> 91) @@ ("]" :> 93) @@
  ("D" :> 68) @@ ("F" :> 70) @@ ("N" :> 78) @@ ("O" :> 79) @@ ("R" :> 82) @@
  ("T" :> 84) @@ ("Y" :> 89) @@
  ("a" :> 97) @@ ("b" :> 98) @@ ("d" :> 100) @@ ("e" :> 101) @@ ("f" :> 102) @@ ("g" :> 103) @@
  ("i" :> 105) @@ ("k" :> 107) @@ ("l" :> 108) @@ ("n" :> 110) @@ ("o" :> 111) @@
  ("r" :> 114) @@ ("s" :> 115) @@ ("t" :> 116) @@ ("u" :> 117) @@ ("x" :> 120) @@
  ("y" :> 121) @@ ("z" :> 122)

Digits == {"0", "1", "2", "3", "4", "5", "6", "7", "8", "9"}

DigitVal(c) == Ord[c] - 48

IsSpace(c) == c = " "

LowerChar(c) == IF Ord[c] >= 65 /\ Ord[c] <= 90
                THEN CHOOSE d \in DOMAIN Ord : Ord[d] = Ord[c] + 32
                ELSE c

ToLower(s) == [i \in 1..Len(s) |-> LowerChar(s[i])]

\* strings.EqualFold on ASCII text
EqualFold(a, b) == ToLower(a) = ToLower(b)

\* strings.TrimSpace
TrimSpace(s) ==
  LET keep == {i \in 1..Len(s) : ~IsSpace(s[i])}
  IN  IF keep = {} THEN <<>>
      ELSE LET lo == CHOOSE i \in keep : \A j \in keep : i <= j
               hi == CHOOSE i \in keep : \A j \in keep : j <= i
           IN  SubSeq(s, lo, hi)

\* strings.Split(s, sep) for a one-character separator: never empty
RECURSIVE Split(_, _)
Split(s, sep) ==
  LET at == {i \in 1..Len(s) : s[i] = sep}
  IN  IF at = {} THEN <<s>>
      ELSE LET p == CHOOSE i \in at : \A j \in at : i <= j
           IN  <<SubSeq(s, 1, p - 1)>> \o Split(SubSeq(s, p + 1, Len(s)), sep)

\* strings.Fields: the maximal runs of non-space characters
RECURSIVE Fields(_)
Fields(s) ==
  LET t == TrimSpace(s)
      sp == {i \in 1..Len(t) : IsSpace(t[i])}
  IN  IF t = <<>> THEN <<>>
      ELSE IF sp = {} THEN <<t>>
      ELSE LET p == CHOOSE i \in sp : \A j \in sp : i <= j
           IN  <<SubSeq(t, 1, p - 1)>> \o Fields(SubSeq(t, p + 1, Len(t)))

\* strings.Join
RECURSIVE Join(_, _)
Join(parts, sep) ==
  IF parts = <<>> THEN <<>>
  ELSE IF Len(parts) = 1 THEN parts[1]
  ELSE parts[1] \o sep \o Join(Tail(parts), sep)

\* strings.ReplaceAll(s, c, "")
RemoveChar(s, c) == SelectSeq(s, LAMBDA x : x # c)

HasPrefix(s, p) == Len(p) <= Len(s) /\ SubSeq(s, 1, Len(p)) = p

HasSuffix(s, p) == Len(p) <= Len(s) /\ SubSeq(s, Len(s) - Len(p) + 1, Len(s)) = p

Contains(s, sub) ==
  \E i \in 1..(Len(s) + 1) : i + Len(sub) - 1 <= Len(s) /\ SubSeq(s, i, i + Len(sub) - 1) = sub

\* the < of Go strings: byte-wise lexicographic
StrLess(a, b) ==
  \/ Len(a) < Len(b) /\ SubSeq(b, 1, Len(a)) = a
  \/ \E i \in 1..Len(a) :
       /\ i <= Len(b)
       /\ SubSeq(a, 1, i - 1) = SubSeq(b, 1, i - 1)
       /\ Ord[a[i]] < Ord[b[i]]

\* the value of a run of decimal digits
RECURSIVE DecVal(_)
DecVal(s) == IF s = <<>> THEN 0 ELSE 10 * DecVal(SubSeq(s, 1, Len(s) - 1)) + DigitVal(s[Len(s)])

AllDigits(s) == s # <<>> /\ \A i \in 1..Len(s) : s[i] \in Digits

Unsigned(s) == IF s # <<>> /\ s[1] = "-" THEN Tail(s) ELSE s

\* strconv.ParseFloat(s, 64) on the alphabet: an optional sign and decimal digits
ParseFloat(s) ==
  IF AllDigits(Unsigned(s))
  THEN [ok |-> TRUE, v |-> (IF s[1] = "-" THEN -1 ELSE 1) * DecVal(Unsigned(s))]
  ELSE [ok |-> FALSE, v |-> 0]

\* strconv.Atoi on the alphabet
Atoi(s) == ParseFloat(s)

(***************************************************************************)
(* time.Parse.  A time is the number yyyymmdd; on the alphabet only the    *)
(* three date-only layouts of the fixed list can match (the others need    *)
(* ':' or a month name).  An explicit layout may also be the year alone,   *)
(* "2006", which reads four digits as the first of January of that year.   *)
(***************************************************************************)
DaysIn(m, y) ==
  IF m \in {4, 6, 9, 11} THEN 30
  ELSE IF m = 2 THEN (IF (y % 4 = 0 /\ y % 100 # 0) \/ y % 400 = 0 THEN 29 ELSE 28)
  ELSE 31

NoDate == [ok |-> FALSE, t |-> 0]

MkDate(y, m, d) ==
  IF m >= 1 /\ m <= 12 /\ d >= 1 /\ d <= DaysIn(m, y)
  THEN [ok |-> TRUE, t |-> y * 10000 + m * 100 + d]
  ELSE NoDate

\* the year at iy (four digits), the month at im and the day at id (two each)
DateFields(s, iy, im, id) ==
  MkDate(DecVal(SubSeq(s, iy, iy + 3)), DecVal(SubSeq(s, im, im + 1)),
         DecVal(SubSeq(s, id, id + 1)))

\* ten characters: sep at the positions seps, digits elsewhere
DateShape(s, seps, sep) ==
  /\ Len(s) = 10
  /\ \A i \in 1..10 : IF i \in seps THEN s[i] = sep ELSE s[i] \in Digits

TimeParse(layout, s) ==
  CASE layout = "2006-01-02" /\ DateShape(s, {5, 8}, "-") -> DateFields(s, 1, 6, 9)
    [] layout = "02/01/2006" /\ DateShape(s, {3, 6}, "/") -> DateFields(s, 7, 4, 1)
    [] layout = "01/02/2006" /\ DateShape(s, {3, 6}, "/") -> DateFields(s, 7, 1, 4)
    [] layout = "2006" /\ Len(s) = 4 /\ AllDigits(s) -> MkDate(DecVal(s), 1, 1)
    [] OTHER -> NoDate

\* the fixed list both date coercions try, in order
Layouts ==
  << "RFC3339", "2006-01-02 15:04:05", "2006-01-02 15:04", "2006-01-02",
     "02/01/2006 15:04", "01/02/2006 15:04", "02/01/2006", "01/02/2006",
     "1/2/2006 15:04", "2006-01-02 03:04PM", "02 Jan 2006 15:04", "02 Jan 2006" >>

\* the first layout of ls that parses s
RECURSIVE FirstParse(_, _)
RECURSIVE ParsedOr(_, _, _)
ParsedOr(p, ls, s) == IF p.ok THEN p ELSE FirstParse(ls, s)

FirstParse(ls, s) ==
  IF ls = <<>> THEN NoDate ELSE ParsedOr(TimeParse(ls[1], s), Tail(ls), s)

(***************************************************************************)
(* Tables and errors.                                                      *)
(***************************************************************************)
NoError == "nil"

\* types.TableData; nilRows tells a nil Rows slice from an empty one
Table(hasHeader, header, rows) ==
  [hasHeader |-> hasHeader, header |-> header, rows |-> rows, nilRows |-> FALSE]

EmptyTable == [hasHeader |-> FALSE, header |-> <<>>, rows |-> <<>>, nilRows |-> TRUE]

(***************************************************************************)
(* utils.go                                                                *)
(***************************************************************************)
\* WhitespaceTrimmer: trim, then collapse inner runs of whitespace
WhitespaceTrimmer(s) == Join(Fields(TrimSpace(s)), <<" ">>)

\* the positions of the header whose trimmed entry equals key, case-folded
HeaderMatches(tbl, key) ==
  {i \in 1..Len(tbl.header) : EqualFold(TrimSpace(tbl.header[i]), TrimSpace(key))}

Resolved(idx) == [err |-> NoError, idx |-> idx]

Unresolved(msg) == [err |-> msg, idx |-> -1]

\* ResolveInHeader with the reading as a position tried before the names
ResolveInHeaderNumberFirst(matches, num, headerLen) ==
  IF num.ok /\ 0 <= num.v /\ num.v < headerLen THEN Resolved(num.v)
  ELSE IF matches # {}
  THEN Resolved((CHOOSE i \in matches : \A j \in matches : i <= j) - 1)
  ELSE Unresolved("key not found in header")

\* the header branch: the first match, else the key as a position
ResolveInHeader(matches, num, headerLen) ==
  IF matches # {}
  THEN Resolved((CHOOSE i \in matches : \A j \in matches : i <= j) - 1)
  ELSE IF num.ok
  THEN IF num.v < 0 \/ num.v >= headerLen
       THEN Unresolved("numeric key index out of range")
       ELSE Resolved(num.v)
  ELSE Unresolved("key not found in header")

\* the headerless branch: the key as a position, whatever its sign
ResolveByNumber(num) ==
  IF ~num.ok THEN Unresolved("no header: key must be numeric index string")
  ELSE Resolved(num.v)

\* ResolveKeyIndex: idx is zero-based, as in the source
ResolveKeyIndex(tbl, key) ==
  IF tbl.hasHeader
  THEN ResolveInHeader(HeaderMatches(tbl, key), Atoi(key), Len(tbl.header))
  ELSE ResolveByNumber(Atoi(key))

(***************************************************************************)
(* advanced_sort.go: the coercions of the sort                             *)
(***************************************************************************)
\* parseDateGuess on the trimmed text: the explicit layout first, then the list
parseDateTrimmed(t, explicitLayout) ==
  IF t = <<>> THEN NoDate
  ELSE ParsedOr(IF explicitLayout # "" THEN TimeParse(explicitLayout, t) ELSE NoDate,
                Layouts, t)

parseDateGuess(s, explicitLayout) == parseDateTrimmed(TrimSpace(s), explicitLayout)

Coerced(p) == [ok |-> p.ok, v |-> p.v, panic |-> FALSE]

NotCoerced == [ok |-> FALSE, v |-> 0, panic |-> FALSE]

\* strings.Fields(clean)[0] indexes out of range when clean has no field
FirstFieldFloat(fields) ==
  IF fields = <<>> THEN [ok |-> FALSE, v |-> 0, panic |-> TRUE]
  ELSE Coerced(ParseFloat(fields[1]))

tryParseFloatClean(s, whole, fields) ==
  IF TrimSpace(s) = <<>> THEN NotCoerced
  ELSE IF whole.ok THEN Coerced(whole)
  ELSE FirstFieldFloat(fields)

\* tryParseFloat: the text without commas, else its first field
tryParseFloat(s) ==
  tryParseFloatClean(s, ParseFloat(RemoveChar(s, ",")), Fields(RemoveChar(s, ",")))

(***************************************************************************)
(* advanced_sort.go: sortSingleTable                                       *)
(***************************************************************************)
\* the key cell of a row: r[idx] when idx < len(r), "" otherwise
KeyCell(r, idx) == IF idx >= 0 /\ idx < Len(r) THEN r[idx + 1] ELSE <<>>

\* a negative idx passes the guard idx < len(r) and indexes out of range
KeyCellFaults(r, idx) == idx < 0

\* the rowWrap of a row; src is the row's position in the input
RowWrap(r, src, alphaKey, num, date) ==
  [row |-> r, src |-> src, alphaKey |-> alphaKey,
   numKey |-> num.v, numOk |-> num.ok, dateKey |-> date.t, dateOk |-> date.ok,
   panic |-> num.panic]

wrapCell(r, src, cell, opts) ==
  CASE opts.mode = "alphabetical" ->
         RowWrap(r, src, IF opts.caseInsensitive THEN ToLower(cell) ELSE cell,
                 NotCoerced, NoDate)
    [] opts.mode = "numeric" -> RowWrap(r, src, <<>>, tryParseFloat(cell), NoDate)
    [] opts.mode = "date" ->
         RowWrap(r, src, <<>>, NotCoerced, parseDateGuess(cell, opts.dateFormat))
    [] OTHER -> RowWrap(r, src, <<>>, NotCoerced, NoDate)

TrimIf(trim, s) == IF trim THEN TrimSpace(s) ELSE s

wrapRow(r, src, idx, opts) ==
  wrapCell(r, src, TrimIf(opts.trimSpaces, KeyCell(r, idx)), opts)

\* the text both-invalid rows are compared on
FallbackText(w, idx, opts) ==
  IF opts.caseInsensitive
  THEN ToLower(TrimSpace(KeyCell(w.row, idx)))
  ELSE KeyCell(w.row, idx)

\* Directed with the direction ignored
DirectedAscOnly(asc, ai, bi) == StrLess(ai, bi)

Directed(asc, ai, bi) == IF asc THEN StrLess(ai, bi) ELSE StrLess(bi, ai)

\* LessAlpha with the tie test dropped and <= in place of <
LessAlphaNoTie(a, b, asc) == ~Directed(asc, b.alphaKey, a.alphaKey)

LessAlpha(a, b, asc) ==
  IF a.alphaKey = b.alphaKey THEN FALSE
  ELSE Directed(asc, a.alphaKey, b.alphaKey)

\* LessNumeric with a coerced key before a failed one whatever the direction
LessNumericValidFirst(a, b, asc, idx, opts) ==
  IF a.numOk /\ b.numOk
  THEN IF a.numKey = b.numKey THEN FALSE
       ELSE IF asc THEN a.numKey < b.numKey ELSE a.numKey > b.numKey
  ELSE IF a.numOk /\ ~b.numOk THEN TRUE
  ELSE IF ~a.numOk /\ b.numOk THEN FALSE
  ELSE Directed(asc, FallbackText(a, idx, opts), FallbackText(b, idx, opts))

LessNumeric(a, b, asc, idx, opts) ==
  IF a.numOk /\ b.numOk
  THEN IF a.numKey = b.numKey THEN FALSE
       ELSE IF asc THEN a.numKey < b.numKey ELSE a.numKey > b.numKey
  ELSE IF a.numOk /\ ~b.numOk THEN asc
  ELSE IF ~a.numOk /\ b.numOk THEN ~asc
  ELSE Directed(asc, FallbackText(a, idx, opts), FallbackText(b, idx, opts))

LessDate(a, b, asc, idx, opts) ==
  IF a.dateOk /\ b.dateOk
  THEN IF a.dateKey = b.dateKey THEN FALSE
       ELSE IF asc THEN a.dateKey < b.dateKey ELSE a.dateKey > b.dateKey
  ELSE IF a.dateOk /\ ~b.dateOk THEN asc
  ELSE IF ~a.dateOk /\ b.dateOk THEN ~asc
  ELSE Directed(asc, FallbackText(a, idx, opts), FallbackText(b, idx, opts))

LessDefault(a, b, asc, idx) == Directed(asc, KeyCell(a.row, idx), KeyCell(b.row, idx))

\* the comparator handed to sort.SliceStable
Less(a, b, idx, opts) ==
  CASE opts.mode = "alphabetical" -> LessAlpha(a, b, opts.order = "asc")
    [] opts.mode = "numeric"      -> LessNumeric(a, b, opts.order = "asc", idx, opts)
    [] opts.mode = "date"         -> LessDate(a, b, opts.order = "asc", idx, opts)
    [] OTHER                      -> LessDefault(a, b, opts.order = "asc", idx)

\* Swap that overwrites position i and leaves position j as it was
SwapOverwrite(seq, i, j) == [seq EXCEPT ![i] = seq[j]]

Swap(seq, i, j) == [seq EXCEPT ![i] = seq[j], ![j] = seq[i]]

\* the inner loop of the insertion sort: for j := i; j > a && less(j, j-1); j--
RECURSIVE SiftLeft(_, _, _, _)
SiftLeft(seq, j, idx, opts) ==
  IF j > 1 /\ Less(seq[j], seq[j - 1], idx, opts)
  THEN SiftLeft(Swap(seq, j, j - 1), j - 1, idx, opts)
  ELSE seq

RECURSIVE InsertFrom(_, _, _, _)
InsertFrom(seq, i, idx, opts) ==
  IF i > Len(seq) THEN seq
  ELSE InsertFrom(SiftLeft(seq, i, idx, opts), i + 1, idx, opts)

\* sort.SliceStable on fewer than 20 elements is one insertion sort
SliceStable(wrapped, idx, opts) == InsertFrom(wrapped, 2, idx, opts)

SortOutcome(panic, err, out, processed, perm) ==
  [panic |-> panic, err |-> err, out |-> out, processed |-> processed, perm |-> perm]

\* the reconstructed table; perm[k] is the input position of the k-th output row
sortOutput(tbl, sorted) ==
  SortOutcome(FALSE, NoError,
              [hasHeader |-> tbl.hasHeader, header |-> tbl.header,
               rows |-> [k \in 1..Len(sorted) |-> sorted[k].row], nilRows |-> FALSE],
              Len(tbl.rows),
              [k \in 1..Len(sorted) |-> sorted[k].src])

\* building the wrapped rows faults on a negative idx or in tryParseFloat
sortWrapped(tbl, wrapped, idx, opts) ==
  IF \E i \in 1..Len(tbl.rows) : KeyCellFaults(tbl.rows[i], idx) \/ wrapped[i].panic
  THEN SortOutcome(TRUE, NoError, EmptyTable, 0, <<>>)
  ELSE sortOutput(tbl, SliceStable(wrapped, idx, opts))

sortResolved(tbl, opts, rk) ==
  IF rk.err # NoError
  THEN SortOutcome(FALSE, "key resolution", EmptyTable, 0, <<>>)
  ELSE sortWrapped(tbl, [i \in 1..Len(tbl.rows) |-> wrapRow(tbl.rows[i], i, rk.idx, opts)],
                   rk.idx, opts)

sortSingleTable(tbl, opts) == sortResolved(tbl, opts, ResolveKeyIndex(tbl, opts.key))

(***************************************************************************)
(* advanced_sort.go: AdvancedSort                                          *)
(***************************************************************************)
SortResponse(panic, error, perList, processedTotal, sortedTotal) ==
  [kind |-> "sort", panic |-> panic, error |-> error, perList |-> perList,
   summary |-> [tables_count |-> Len(perList), processed_total |-> processedTotal,
                sorted_total |-> sortedTotal]]

SortFailure(msg) == SortResponse(FALSE, msg, <<>>, 0, 0)

\* the tables operated on: the lists, or the master wrapped as "dataset"
SortTables(datasets) ==
  IF Len(datasets.lists) > 0 THEN datasets.lists
  ELSE IF Len(datasets.master.rows) > 0 \/ Len(datasets.master.header) > 0
  THEN <<[name |-> "dataset", table |-> datasets.master]>>
  ELSE <<>>

\* the PerSortResult of one table
PerSortOf(name, r) ==
  IF r.err # NoError
  THEN [name |-> name, processed |-> 0, sorted |-> 0, result |-> EmptyTable,
        error |-> r.err, perm |-> <<>>, panic |-> r.panic]
  ELSE [name |-> name, processed |-> r.processed, sorted |-> Len(r.out.rows),
        result |-> r.out, error |-> NoError, perm |-> r.perm, panic |-> r.panic]

PerSort(nt, opts) == PerSortOf(nt.name, sortSingleTable(nt.table, opts))

RECURSIVE SumOf(_, _)
SumOf(seq, field) ==
  IF seq = <<>> THEN 0 ELSE seq[1][field] + SumOf(Tail(seq), field)

\* EffectiveSortOptions with an empty order left empty
OptionsAsGiven(r) == r.options

\* an empty order is replaced by asc before any table is sorted
EffectiveSortOptions(r) ==
  [r.options EXCEPT !.order = IF r.options.order = "" THEN "asc" ELSE @]

\* the loop over the tables: a fault in one table ends the call
SortAll(per) ==
  IF \E i \in 1..Len(per) : per[i].panic
  THEN SortResponse(TRUE, NoError, <<>>, 0, 0)
  ELSE SortResponse(FALSE, NoError, per, SumOf(per, "processed"), SumOf(per, "sorted"))

PerList(tables, opts) == [i \in 1..Len(tables) |-> PerSort(tables[i], opts)]

AdvancedSortResponse(r) ==
  IF r.options.mode = "" THEN SortFailure("sort mode required")
  ELSE IF r.options.key = <<>> THEN SortFailure("sort key required")
  ELSE IF SortTables(r.datasets) = <<>> THEN SortFailure("no tables provided")
  ELSE SortAll(PerList(SortTables(r.datasets), EffectiveSortOptions(r)))

\* one call of AdvancedSort
AdvancedSort ==
  /\ pc = "ready"
  /\ req.kind = "sort"
  /\ res' = AdvancedSortResponse(req)
  /\ pc' = "done"
  /\ UNCHANGED req

(***************************************************************************)
(* advanced_extract.go: values and coercions                               *)
(*                                                                         *)
(* Condition.Value is an interface{}: nil, a string, a float64 or a list   *)
(* of scalars.  A value is a record tagged by t.                           *)
(***************************************************************************)
NilV == [t |-> "nil"]

StrV(s) == [t |-> "str", s |-> s]

NumV(n) == [t |-> "num", n |-> n]

ListV(l) == [t |-> "list", l |-> l]

\* the decimal digits of a natural number
RECURSIVE DecStr(_)
DecStr(n) ==
  IF n < 10 THEN <<CHOOSE c \in Digits : DigitVal(c) = n>>
  ELSE DecStr(n \div 10) \o <<CHOOSE c \in Digits : DigitVal(c) = n % 10>>

\* fmt.Sprintf("%v", v)
RECURSIVE FmtV(_)
RECURSIVE FmtAll(_)
FmtAll(l) == [i \in 1..Len(l) |-> FmtV(l[i])]

FmtV(v) ==
  CASE v.t = "nil"  -> <<"<", "n", "i", "l", ">">>
    [] v.t = "str"  -> v.s
    [] v.t = "num"  -> IF v.n < 0 THEN <<"-">> \o DecStr(0 - v.n) ELSE DecStr(v.n)
    [] v.t = "list" -> <<"[">> \o Join(FmtAll(v.l), <<" ">>) \o <<"]">>

\* tryParseNumber: no comma stripping, no first-field fallback
tryParseNumber(s) == IF s = <<>> THEN [ok |-> FALSE, v |-> 0] ELSE ParseFloat(s)

\* tryParseDate: one list, the explicit layout first
tryParseDateTrimmed(t, explicitLayout) ==
  IF t = <<>> THEN NoDate
  ELSE FirstParse(IF explicitLayout # "" THEN <<explicitLayout>> \o Layouts ELSE Layouts, t)

tryParseDate(s, explicitLayout) == tryParseDateTrimmed(TrimSpace(s), explicitLayout)

TrueSet == { <<"t","r","u","e">>, <<"1">>, <<"y","e","s">>, <<"y">>, <<"t">> }

FalseSet == { <<"f","a","l","s","e">>, <<"0">>, <<"n","o">>, <<"n">>, <<"f">> }

coerceToBoolNorm(s) ==
  IF s \in TrueSet THEN [b |-> TRUE, ok |-> TRUE]
  ELSE IF s \in FalseSet THEN [b |-> FALSE, ok |-> TRUE]
  ELSE [b |-> FALSE, ok |-> FALSE]

coerceToBool(s) == coerceToBoolNorm(TrimSpace(ToLower(s)))

\* one candidate against elem
Matches(elem, its, caseInsensitive) ==
  IF caseInsensitive THEN EqualFold(elem, its) ELSE elem = its

\* the []interface{} branch: candidates are trimmed only when trim is set
AnyListed(elem, cands, caseInsensitive, trim) ==
  \E i \in 1..Len(cands) : Matches(elem, TrimIf(trim, cands[i]), caseInsensitive)

\* the default branch: the comma-separated parts are always trimmed
AnyPart(elem, parts, caseInsensitive) ==
  \E i \in 1..Len(parts) : Matches(elem, TrimSpace(parts[i]), caseInsensitive)

stringInList(elem, listVal, caseInsensitive, trim) ==
  CASE listVal.t = "nil"  -> FALSE
    [] listVal.t = "list" -> AnyListed(elem, FmtAll(listVal.l), caseInsensitive, trim)
    [] OTHER              -> AnyPart(elem, Split(FmtV(listVal), ","), caseInsensitive)

\* regexp.Compile: with no ')' in the alphabet a '(' is never closed; any
\* other pattern of the requests below is a literal
RegexpCompiles(pat) == \A i \in 1..Len(pat) : pat[i] # "("

\* MatchString of a literal pattern
MatchString(pat, s) == Contains(s, pat)

\* the enumeration of ConditionOperator
Operators ==
  { "equals", "not_equals", "contains", "not_contains", "starts_with", "ends_with",
    "in", "not_in", "gt", "gte", "lt", "lte", "date_after", "date_before",
    "is_true", "is_false", "is_null", "is_not_null", "matches" }

(***************************************************************************)
(* advanced_extract.go: evalCondition                                      *)
(***************************************************************************)
Verdict(ok) == [ok |-> ok, err |-> NoError]

Failed(err) == [ok |-> FALSE, err |-> err]

\* boolOption: the per-condition override, "nil" when absent
boolOption(global, per) == IF per = "nil" THEN global ELSE per = "true"

NormCol(c) == ToLower(TrimSpace(c))

\* headerMap: a later header entry with the same key overwrites an earlier one
HeaderKeys(header) == {NormCol(header[i]) : i \in 1..Len(header)}

LastAt(header, k) ==
  CHOOSE i \in 1..Len(header) :
    /\ NormCol(header[i]) = k
    /\ \A j \in 1..Len(header) : NormCol(header[j]) = k => j <= i

\* zero-based positions, as in the source
HeaderMap(header) == [k \in HeaderKeys(header) |-> LastAt(header, k) - 1]

EqualsText(cell, vstr, caseInsensitive) ==
  IF caseInsensitive THEN EqualFold(cell, vstr) ELSE cell = vstr

EqualsNumber(num, v) == IF num.ok THEN num.v = v ELSE FALSE

EvalEquals(cell, value, trim, caseInsensitive) ==
  IF value.t = "num" THEN EqualsNumber(tryParseNumber(cell), value.n)
  ELSE EqualsText(cell, TrimIf(trim, FmtV(value)), caseInsensitive)

\* the condition is re-evaluated with OpEquals and its result negated
EvalNotEquals(cell, value, trim, caseInsensitive) ==
  ~EvalEquals(cell, value, trim, caseInsensitive)

FoldIf(caseInsensitive, s) == IF caseInsensitive THEN ToLower(s) ELSE s

ContainsText(cell, vstr, caseInsensitive) ==
  Contains(FoldIf(caseInsensitive, cell), FoldIf(caseInsensitive, vstr))

EvalContains(cell, value, trim, caseInsensitive) ==
  ContainsText(cell, TrimIf(trim, FmtV(value)), caseInsensitive)

EvalNotContains(cell, value, trim, caseInsensitive) ==
  ~EvalContains(cell, value, trim, caseInsensitive)

PrefixText(cell, vstr, caseInsensitive) ==
  HasPrefix(FoldIf(caseInsensitive, cell), FoldIf(caseInsensitive, vstr))

EvalStartsWith(cell, value, trim, caseInsensitive) ==
  PrefixText(cell, TrimIf(trim, FmtV(value)), caseInsensitive)

SuffixText(cell, vstr, caseInsensitive) ==
  HasSuffix(FoldIf(caseInsensitive, cell), FoldIf(caseInsensitive, vstr))

EvalEndsWith(cell, value, trim, caseInsensitive) ==
  SuffixText(cell, TrimIf(trim, FmtV(value)), caseInsensitive)

\* OpIn trims the (already normalised) cell once more
EvalIn(cell, value, trim, caseInsensitive) ==
  stringInList(TrimIf(trim, cell), value, caseInsensitive, trim)

EvalNotInRawList(cell, value, trim, caseInsensitive) ==
  ~stringInList(cell, value, caseInsensitive, FALSE)

EvalNotIn(cell, value, trim, caseInsensitive) ==
  ~stringInList(cell, value, caseInsensitive, trim)

CmpNum(op, c, v) ==
  CASE op = "gt"  -> c > v
    [] op = "gte" -> c >= v
    [] op = "lt"  -> c < v
    [] op = "lte" -> c <= v

\* After, After or Equal, Before, Before or Equal
CmpTime(op, t1, t2) ==
  CASE op = "gt"  -> t1 > t2
    [] op = "gte" -> t1 > t2 \/ t1 = t2
    [] op = "lt"  -> t1 < t2
    [] op = "lte" -> t1 < t2 \/ t1 = t2

CompareDates(op, d1, d2) == IF d1.ok /\ d2.ok THEN CmpTime(op, d1.t, d2.t) ELSE FALSE

\* a float64 operand: the cell must be a number
CompareNumber(op, num, v) == IF num.ok THEN CmpNum(op, num.v, v) ELSE FALSE

\* a textual operand vstr (trimmed on request), raw being the untrimmed text
CompareText(op, num, date, vnum, vstr, raw, dateFormat) ==
  IF vnum.ok
  THEN IF num.ok THEN CmpNum(op, num.v, vnum.v)
       ELSE CompareDates(op, date, tryParseDate(vstr, dateFormat))
  ELSE IF raw # <<>> THEN CompareDates(op, date, tryParseDate(raw, dateFormat))
  ELSE FALSE

CompareSteps(op, value, num, date, vstr, raw, dateFormat) ==
  IF value.t = "num" THEN CompareNumber(op, num, value.n)
  ELSE CompareText(op, num, date, ParseFloat(vstr), vstr, raw, dateFormat)

\* gt, gte, lt, lte
EvalCompare(op, cell, value, trim, dateFormat) ==
  CompareSteps(op, value, tryParseNumber(cell), tryParseDate(cell, dateFormat),
               TrimIf(trim, FmtV(value)), FmtV(value), dateFormat)

DateAfter(d1, d2) == IF ~d1.ok \/ ~d2.ok THEN FALSE ELSE d1.t > d2.t

DateBefore(d1, d2) == IF ~d1.ok \/ ~d2.ok THEN FALSE ELSE d1.t < d2.t

EvalDateAfter(cell, value, trim, dateFormat) ==
  DateAfter(tryParseDate(cell, dateFormat),
            tryParseDate(TrimIf(trim, FmtV(value)), dateFormat))

EvalDateBefore(cell, value, trim, dateFormat) ==
  DateBefore(tryParseDate(cell, dateFormat),
             tryParseDate(TrimIf(trim, FmtV(value)), dateFormat))

IsTrue(b) == IF b.ok THEN b.b ELSE FALSE

\* IsFalse with a cell that did not coerce taken as false
IsFalseUncoerced(b) == ~b.b

IsFalse(b) == IF b.ok THEN ~b.b ELSE FALSE

EvalIsTrue(cell) == IsTrue(coerceToBool(cell))

EvalIsFalse(cell) == IsFalse(coerceToBool(cell))

EvalIsNull(cell) == TrimSpace(cell) = <<>>

EvalIsNotNull(cell) == TrimSpace(cell) # <<>>

\* the pattern is compiled at every evaluation of the condition
MatchPattern(cell, pat) ==
  IF ~RegexpCompiles(pat) THEN Failed("invalid regex")
  ELSE Verdict(MatchString(pat, cell))

EvalMatches(cell, value, trim) == MatchPattern(cell, TrimIf(trim, FmtV(value)))

\* the switch on cond.Operator
EvalOperator(cond, cell, trim, caseInsensitive, dateFormat) ==
  CASE cond.operator = "equals" ->
         Verdict(EvalEquals(cell, cond.value, trim, caseInsensitive))
    [] cond.operator = "not_equals" ->
         Verdict(EvalNotEquals(cell, cond.value, trim, caseInsensitive))
    [] cond.operator = "contains" ->
         Verdict(EvalContains(cell, cond.value, trim, caseInsensitive))
    [] cond.operator = "not_contains" ->
         Verdict(EvalNotContains(cell, cond.value, trim, caseInsensitive))
    [] cond.operator = "starts_with" ->
         Verdict(EvalStartsWith(cell, cond.value, trim, caseInsensitive))
    [] cond.operator = "ends_with" ->
         Verdict(EvalEndsWith(cell, cond.value, trim, caseInsensitive))
    [] cond.operator = "in" ->
         Verdict(EvalIn(cell, cond.value, trim, caseInsensitive))
    [] cond.operator = "not_in" ->
         Verdict(EvalNotIn(cell, cond.value, trim, caseInsensitive))
    [] cond.operator \in {"gt", "gte", "lt", "lte"} ->
         Verdict(EvalCompare(cond.operator, cell, cond.value, trim, dateFormat))
    [] cond.operator = "date_after" ->
         Verdict(EvalDateAfter(cell, cond.value, trim, dateFormat))
    [] cond.operator = "date_before" ->
         Verdict(EvalDateBefore(cell, cond.value, trim, dateFormat))
    [] cond.operator = "is_true" -> Verdict(EvalIsTrue(cell))
    [] cond.operator = "is_false" -> Verdict(EvalIsFalse(cell))
    [] cond.operator = "is_null" -> Verdict(EvalIsNull(cell))
    [] cond.operator = "is_not_null" -> Verdict(EvalIsNotNull(cell))
    [] cond.operator = "matches" -> EvalMatches(cell, cond.value, trim)
    [] OTHER -> Failed("unsupported operator")

\* the cell at a zero-based position of the header map: "" beyond the row
CellAt(row, idx) == IF idx < Len(row) THEN row[idx + 1] ELSE <<>>

CollapseIf(trim, s) == IF trim THEN WhitespaceTrimmer(s) ELSE s

evalResolved(cond, row, idx, trim, globalOptions) ==
  EvalOperator(cond, CollapseIf(trim, CellAt(row, idx)), trim,
               boolOption(globalOptions.caseInsensitive, cond.caseInsensitive),
               globalOptions.dateFormat)

evalLookedUp(cond, row, headerMap, col, globalOptions) ==
  IF col \notin DOMAIN headerMap THEN Failed("column not found")
  ELSE evalResolved(cond, row, headerMap[col],
                    boolOption(globalOptions.trimSpaces, cond.trimSpaces), globalOptions)

evalCondition(cond, row, headerMap, globalOptions) ==
  evalLookedUp(cond, row, headerMap, NormCol(cond.column), globalOptions)

(***************************************************************************)
(* advanced_extract.go: evalGroup, gatherColumnsFromGroup                  *)
(***************************************************************************)
And == <<"a", "n", "d">>

Or == <<"o", "r">>

OrStepFirstOnly(r, g, k, row, headerMap, globalOptions) ==
  IF r.err # NoError THEN Failed(r.err) ELSE Verdict(r.ok)

RECURSIVE evalGroup(_, _, _, _)
RECURSIVE EvalItem(_, _, _, _, _)
RECURSIVE AndFrom(_, _, _, _, _)
RECURSIVE AndStep(_, _, _, _, _, _)
RECURSIVE OrFrom(_, _, _, _, _)
RECURSIVE OrStep(_, _, _, _, _, _)

\* AndFrom with the subgroups left out
AndFromCondsOnly(g, k, row, headerMap, globalOptions) ==
  IF k > Len(g.conds) THEN Verdict(TRUE)
  ELSE AndStep(EvalItem(g, k, row, headerMap, globalOptions), g, k, row, headerMap,
               globalOptions)

\* the k-th thing a group evaluates: its conditions, then its subgroups
EvalItem(g, k, row, headerMap, globalOptions) ==
  IF k <= Len(g.conds)
  THEN evalCondition(g.conds[k], row, headerMap, globalOptions)
  ELSE evalGroup(g.subGroups[k - Len(g.conds)], row, headerMap, globalOptions)

AndStep(r, g, k, row, headerMap, globalOptions) ==
  IF r.err # NoError THEN Failed(r.err)
  ELSE IF ~r.ok THEN Verdict(FALSE)
  ELSE AndFrom(g, k + 1, row, headerMap, globalOptions)

AndFrom(g, k, row, headerMap, globalOptions) ==
  IF k > Len(g.conds) + Len(g.subGroups) THEN Verdict(TRUE)
  ELSE AndStep(EvalItem(g, k, row, headerMap, globalOptions), g, k, row, headerMap,
               globalOptions)

OrStep(r, g, k, row, headerMap, globalOptions) ==
  IF r.err # NoError THEN Failed(r.err)
  ELSE IF r.ok THEN Verdict(TRUE)
  ELSE OrFrom(g, k + 1, row, headerMap, globalOptions)

OrFrom(g, k, row, headerMap, globalOptions) ==
  IF k > Len(g.conds) + Len(g.subGroups) THEN Verdict(FALSE)
  ELSE OrStep(EvalItem(g, k, row, headerMap, globalOptions), g, k, row, headerMap,
              globalOptions)

evalGroupOp(op, g, row, headerMap, globalOptions) ==
  IF op # And /\ op # Or THEN Failed("invalid group op")
  ELSE IF op = And THEN AndFrom(g, 1, row, headerMap, globalOptions)
  ELSE OrFrom(g, 1, row, headerMap, globalOptions)

evalGroup(g, row, headerMap, globalOptions) ==
  evalGroupOp(ToLower(TrimSpace(g.op)), g, row, headerMap, globalOptions)

\* the normalised column names of the tree; a blank name is not collected
RECURSIVE gatherColumnsFromGroup(_)
gatherColumnsFromGroup(g) ==
  ({NormCol(g.conds[i].column) : i \in 1..Len(g.conds)} \ {<<>>})
    \cup UNION {gatherColumnsFromGroup(g.subGroups[i]) : i \in 1..Len(g.subGroups)}

(***************************************************************************)
(* advanced_extract.go: AdvancedExtract                                    *)
(***************************************************************************)
MinInt == 0 - 2 ^ (IntBits - 1)

MaxInt == 2 ^ (IntBits - 1) - 1

\* two's-complement wrap-around of a sum
WrapInt(x) == ((x - MinInt) % (2 ^ IntBits)) + MinInt

NoLimitAsGiven(limit, n) == limit

NoLimit(limit, n) == IF limit <= 0 THEN n ELSE limit

ClampOffset(offset, n) == IF offset < 0 THEN 0 ELSE IF offset > n THEN n ELSE offset

ClampEnd(end, n) == IF end > n THEN n ELSE end

\* matchedRows[offset:end] faults when end < offset
SliceRows(rows, offset, end) ==
  IF end < offset THEN [panic |-> TRUE, rows |-> <<>>, offset |-> offset, end |-> end]
  ELSE [panic |-> FALSE, rows |-> SubSeq(rows, offset + 1, end), offset |-> offset,
        end |-> end]

PaginateFrom(rows, offset, limit) ==
  SliceRows(rows, offset, ClampEnd(WrapInt(offset + limit), Len(rows)))

Paginate(rows, pagination) ==
  PaginateFrom(rows, ClampOffset(pagination.offset, Len(rows)),
               NoLimit(pagination.limit, Len(rows)))

RECURSIVE ScanFrom(_, _, _, _, _, _)
RECURSIVE ScanStep(_, _, _, _, _, _, _)

\* ScanStep with every row kept, matching or not
ScanStepKeepAll(v, rows, k, matched, filter, headerMap, options) ==
  IF v.err # NoError THEN [err |-> v.err, matched |-> <<>>, scanned |-> k]
  ELSE ScanFrom(rows, k + 1, Append(matched, rows[k]), filter, headerMap, options)

\* the loop over the rows: an error ends it, a match is copied
ScanStep(v, rows, k, matched, filter, headerMap, options) ==
  IF v.err # NoError THEN [err |-> v.err, matched |-> <<>>, scanned |-> k]
  ELSE ScanFrom(rows, k + 1, IF v.ok THEN Append(matched, rows[k]) ELSE matched,
                filter, headerMap, options)

ScanFrom(rows, k, matched, filter, headerMap, options) ==
  IF k > Len(rows) THEN [err |-> NoError, matched |-> matched, scanned |-> Len(rows)]
  ELSE ScanStep(evalGroup(filter, rows[k], headerMap, options), rows, k, matched,
                filter, headerMap, options)

\* scanned counts the rows evalGroup was called on; slice is the slice taken
ExtractResponse(panic, error, errCol, processed, matched, result, scanned, slice) ==
  [kind |-> "extract", panic |-> panic, error |-> error, errCol |-> errCol,
   summary |-> [processed |-> processed, matched |-> matched,
                missing |-> processed - matched],
   result |-> result, scanned |-> scanned, slice |-> slice]

NoSlice == [offset |-> 0, end |-> 0]

ExtractFailure(error, errCol, scanned) ==
  ExtractResponse(FALSE, error, errCol, 0, 0, EmptyTable, scanned, NoSlice)

ExtractPaged(r, scan, page) ==
  IF page.panic
  THEN ExtractResponse(TRUE, NoError, <<>>, 0, 0, EmptyTable, scan.scanned,
                       [offset |-> page.offset, end |-> page.end])
  ELSE ExtractResponse(FALSE, NoError, <<>>, scan.scanned, Len(scan.matched),
                       [hasHeader |-> r.dataset.hasHeader, header |-> r.dataset.header,
                        rows |-> page.rows, nilRows |-> FALSE],
                       scan.scanned, [offset |-> page.offset, end |-> page.end])

ExtractScannedPartial(r, scan) ==
  IF scan.err # NoError
  THEN ExtractResponse(FALSE, scan.err, <<>>, scan.scanned, 0,
                       Table(r.dataset.hasHeader, r.dataset.header,
                             SubSeq(r.dataset.rows, 1, scan.scanned - 1)),
                       scan.scanned, NoSlice)
  ELSE ExtractPaged(r, scan, Paginate(scan.matched, r.pagination))

ExtractScanned(r, scan) ==
  IF scan.err # NoError THEN ExtractFailure(scan.err, <<>>, scan.scanned)
  ELSE ExtractPaged(r, scan, Paginate(scan.matched, r.pagination))

\* the referenced columns the header map does not hold
MissingColumns(cols, headerMap) == {c \in cols : c \notin DOMAIN headerMap}

\* the map of referenced columns is ranged over in no fixed order: the first
\* missing column met is any of them
ExtractValidated(r, headerMap, missing) ==
  IF missing # {}
  THEN {ExtractFailure("filter column not found", c, 0) : c \in missing}
  ELSE {ExtractScanned(r, ScanFrom(r.dataset.rows, 1, <<>>, r.filter, headerMap,
                                   r.options))}

ExtractWithMap(r, headerMap) ==
  ExtractValidated(r, headerMap,
                   MissingColumns(gatherColumnsFromGroup(r.filter), headerMap))

\* the responses AdvancedExtract can give to a request
AdvancedExtractResponses(r) ==
  IF r.dataset.nilRows THEN {ExtractFailure("dataset required", <<>>, 0)}
  ELSE ExtractWithMap(r, HeaderMap(r.dataset.header))

\* one call of AdvancedExtract
AdvancedExtract ==
  /\ pc = "ready"
  /\ req.kind = "extract"
  /\ res' \in AdvancedExtractResponses(req)
  /\ pc' = "done"
  /\ UNCHANGED req

(***************************************************************************)
(* Storage.  Go slices share their backing arrays: to tell a copy from an  *)
(* alias, a table is laid out in a heap, a sequence of arrays addressed by *)
(* position.  A header array and a row array hold cells; the array of a    *)
(* table's rows holds the addresses of its row arrays.                     *)
(***************************************************************************)
\* CopySlice with the array shared in place of copied
ShareSlice(heap, a) == [heap |-> heap, ref |-> a]

\* append([]string(nil), s...): a new array holding the elements of s
CopySlice(heap, a) == [heap |-> Append(heap, heap[a]), ref |-> Len(heap) + 1]

\* the copies, made one after the other, of the arrays at refs
RECURSIVE CopyEach(_, _, _)
RECURSIVE CopyEachNext(_, _, _)
CopyEachNext(c, rest, acc) == CopyEach(c.heap, rest, Append(acc, c.ref))

CopyEach(heap, refs, acc) ==
  IF refs = <<>> THEN [heap |-> heap, refs |-> acc]
  ELSE CopyEachNext(CopySlice(heap, Head(refs)), Tail(refs), acc)

\* the table of a request as the caller holds it: the header array at 1, row
\* i at i + 1, the array of rows after them
StoredTable(tbl) ==
  [heap  |-> <<tbl.header>> \o tbl.rows \o <<[i \in 1..Len(tbl.rows) |-> i + 1]>>,
   table |-> [hasHeader |-> tbl.hasHeader, header |-> 1, rows |-> Len(tbl.rows) + 2]]

\* the table a stored table holds
Deref(heap, t) ==
  Table(t.hasHeader, heap[t.header],
        [i \in 1..Len(heap[t.rows]) |-> heap[heap[t.rows][i]]])

NoTable == [hasHeader |-> FALSE, header |-> 0, rows |-> 0]

\* the state of storage after a call: the response, the heap, the table
\* passed in, the table returned (NoTable when none is) and its value
Stored(response, heap, input, output) ==
  [kind |-> "stored", response |-> response, heap |-> heap, input |-> input,
   output |-> output,
   returned |-> IF output = NoTable THEN EmptyTable ELSE Deref(heap, output),
   written |-> 0]

\* the returned table: a copy of the header, a new array of the row arrays
StoredResult(response, st, h, rowRefs) ==
  Stored(response, Append(h.heap, rowRefs), st.table,
         [hasHeader |-> st.table.hasHeader, header |-> h.ref, rows |-> Len(h.heap) + 1])

\* the input positions of the rows the filter holds for
MatchedIdx(r) ==
  SelectSeq([i \in 1..Len(r.dataset.rows) |-> i],
            LAMBDA i : evalGroup(r.filter, r.dataset.rows[i],
                                 HeaderMap(r.dataset.header), r.options).ok)

\* AdvancedExtract in storage: every matching row is copied, the page is a
\* slice of the copies, the header is copied
ExtractStoredPage(response, st, copies, page) ==
  StoredResult(response, st, CopySlice(copies.heap, st.table.header), page.rows)

ExtractStoredRows(response, r, st, copies) ==
  ExtractStoredPage(response, st, copies, Paginate(copies.refs, r.pagination))

ExtractStored(response, r, st, matched) ==
  IF response.panic \/ response.error # NoError
  THEN Stored(response, st.heap, st.table, NoTable)
  ELSE ExtractStoredRows(response, r, st,
         CopyEach(st.heap, [k \in 1..Len(matched) |-> st.heap[st.table.rows][matched[k]]],
                  <<>>))

\* sortSingleTable in storage: the rows are copied, the copies ordered, and
\* each copied again into the returned table; the header is copied
SortStoredOrdered(response, st, sorted) ==
  StoredResult(response, st, CopySlice(sorted.heap, st.table.header), sorted.refs)

SortStoredRows(response, st, rows, perm) ==
  SortStoredOrdered(response, st,
                    CopyEach(rows.heap, [k \in 1..Len(perm) |-> rows.refs[perm[k]]], <<>>))

SortStored(response, st) ==
  IF response.panic \/ response.error # NoError \/ response.perList[1].error # NoError
  THEN Stored(response, st.heap, st.table, NoTable)
  ELSE SortStoredRows(response, st, CopyEach(st.heap, st.heap[st.table.rows], <<>>),
                      response.perList[1].perm)

\* one call of AdvancedExtract, with the storage it leaves
AdvancedExtractStored ==
  /\ pc = "ready"
  /\ req.kind = "extract"
  /\ \E response \in AdvancedExtractResponses(req) :
       res' = ExtractStored(response, req, StoredTable(req.dataset), MatchedIdx(req))
  /\ pc' = "done"
  /\ UNCHANGED req

\* one call of AdvancedSort on one table, with the storage it leaves
AdvancedSortStored ==
  /\ pc = "ready"
  /\ req.kind = "sort"
  /\ Len(SortTables(req.datasets)) = 1
  /\ res' = SortStored(AdvancedSortResponse(req),
                       StoredTable(SortTables(req.datasets)[1].table))
  /\ pc' = "done"
  /\ UNCHANGED req

\* the arrays of a stored table: its header, its array of rows, its rows
ArraysOf(heap, t) ==
  IF t = NoTable THEN {}
  ELSE {t.header, t.rows} \cup {heap[t.rows][i] : i \in 1..Len(heap[t.rows])}

\* after the call, the caller overwrites one element of an array of the table
\* it passed in or of the table it got back: a cell, or a row of the table
WriteElement ==
  /\ pc = "done"
  /\ res.kind = "stored"
  /\ \E a \in ArraysOf(res.heap, res.input) \cup ArraysOf(res.heap, res.output) :
       \E j \in 1..Len(res.heap[a]) :
         res' = [res EXCEPT !.heap[a][j] = IF a \in {res.input.rows, res.output.rows}
                                           THEN res.input.header
                                           ELSE <<"z">>,
                            !.written = a]
  /\ pc' = "written"
  /\ UNCHANGED req

(***************************************************************************)
(* Sort requests.  The key cells offered depend on the mode, so that each  *)
(* mode sees coercible and non-coercible cells, equal keys with different  *)
(* text, and text that trimming or case folding changes.                   *)
(***************************************************************************)
AlphaCells ==
  { <<"a">>, <<"B">>, <<"b">>, <<"a", " ">>, <<>> }

NumericCells ==
  { <<"2">>, <<"1", "0">>, <<"1", ",", "0">>,
    <<"a">>, <<"B">>, <<" ", "a">>, <<",">> }

DateCells ==
  { <<"2","0","2","1","-","0","2","-","0","1">>,
    <<"0","1","/","0","2","/","2","0","2","1">>,
    <<"2","0","2","0","-","1","2","-","1","2">>,
    <<"a">>, <<"B">>, <<" ", "a">> }

SortModes == {"alphabetical", "numeric", "date", "bogus"}

CellsFor(mode) ==
  CASE mode = "alphabetical" -> AlphaCells
    [] mode = "numeric"      -> NumericCells
    [] mode = "date"         -> DateCells
    [] OTHER                 -> AlphaCells

\* a row holds its key cell, or no cell at all
RowsFor(mode) == {<<c>> : c \in CellsFor(mode)} \cup {<<>>}

InitSort ==
  /\ pc = "ready"
  /\ res = None
  /\ \E mode \in SortModes, order \in {"asc", "desc"},
        trim \in BOOLEAN, ci \in BOOLEAN :
       \E rows \in SeqUpTo(RowsFor(mode), MaxRows) :
         req = [kind     |-> "sort",
                options  |-> [mode |-> mode, order |-> order, key |-> <<"k">>,
                              trimSpaces |-> trim, caseInsensitive |-> ci,
                              dateFormat |-> ""],
                datasets |-> [master |-> EmptyTable,
                              lists  |-> <<[name  |-> "t",
                                            table |-> Table(TRUE, <<<<"k">>>>, rows)]>>]]

NextSort == AdvancedSort

SpecSort == InitSort /\ [][NextSort]_vars

(***************************************************************************)
(* Filter requests.                                                        *)
(***************************************************************************)
Cond(column, operator, value) ==
  [column |-> column, operator |-> operator, value |-> value,
   caseInsensitive |-> "nil", trimSpaces |-> "nil"]

Group(op, conds, subGroups) == [op |-> op, conds |-> conds, subGroups |-> subGroups]

ExtractRequest(dataset, filter, trim, ci, offset, limit) ==
  [kind       |-> "extract",
   options    |-> [trimSpaces |-> trim, caseInsensitive |-> ci, dateFormat |-> ""],
   dataset    |-> dataset,
   filter     |-> filter,
   pagination |-> [offset |-> offset, limit |-> limit]]

ColA == <<"a">>

IsNotNullA == Cond(ColA, "is_not_null", NilV)

IsNullA == Cond(<<" ", "A", " ">>, "is_null", NilV)

\* pagination: a filter that keeps the rows with a cell, every offset and
\* limit of the integer width
PageRows == { <<<<"x">>>>, <<<<"y">>>>, <<<<>>>> }

InitPage ==
  /\ pc = "ready"
  /\ res = None
  /\ \E rows \in SeqUpTo(PageRows, MaxFilterRows),
        offset \in MinInt..MaxInt, limit \in MinInt..MaxInt :
       req = ExtractRequest(Table(TRUE, <<ColA>>, rows),
                            Group(And, <<IsNotNullA>>, <<>>), FALSE, FALSE,
                            offset, limit)

NextPage == AdvancedExtract

SpecPage == InitPage /\ [][NextPage]_vars

(***************************************************************************)
(* Filter trees with a defect in a leaf: a column the header lacks, a      *)
(* blank column, an operator outside the enumeration, a pattern that does  *)
(* not compile.  The leaf sits at the root, in a subgroup or in a subgroup *)
(* of a subgroup, next to leaves that short-circuit the group either way.  *)
(***************************************************************************)
MissingZ == Cond(<<"z">>, "is_null", NilV)

BlankColumn == Cond(<<" ">>, "is_null", NilV)

BogusOperator == Cond(ColA, "bogus", NilV)

BadPattern == Cond(ColA, "matches", StrV(<<"(">>))

FilterLeaves == {IsNotNullA, IsNullA, MissingZ, BlankColumn, BogusOperator, BadPattern}

GroupOps == {And, Or}

\* no subgroup, a subgroup of one leaf, a subgroup holding a subgroup of one leaf
SubGroupsOf(leaves) ==
  {<<>>}
    \cup {<<Group(op, <<c>>, <<>>)>> : op \in GroupOps, c \in leaves}
    \cup {<<Group(op, <<>>, <<Group(And, <<c>>, <<>>)>>)>> : op \in GroupOps, c \in leaves}

FilterTrees(leaves) ==
  {Group(op, conds, subs) :
     op \in GroupOps, conds \in SeqUpTo(leaves, MaxConds), subs \in SubGroupsOf(leaves)}

\* a row with a cell, a row with an empty cell
FilterRows == { <<<<"x">>>>, <<<<>>>> }

\* the second header has a blank entry, which a blank column resolves to
FilterHeaders == { <<ColA>>, <<ColA, <<>>>> }

FilterTables ==
  {Table(TRUE, h, rows) : h \in FilterHeaders, rows \in SeqUpTo(FilterRows, MaxFilterRows)}
    \cup {[Table(TRUE, <<ColA>>, <<>>) EXCEPT !.nilRows = TRUE]}

\* trees with a group operator that is neither and nor or, at the root and in
\* a subgroup that only some rows reach
InvalidGroupTrees ==
  { Group(<<"x", "o", "r">>, <<IsNotNullA>>, <<>>),
    Group(Or, <<IsNullA>>, <<Group(<<"x", "o", "r">>, <<>>, <<>>)>>) }

InitFilter ==
  /\ pc = "ready"
  /\ res = None
  /\ \E tbl \in FilterTables, tree \in FilterTrees(FilterLeaves) \cup InvalidGroupTrees :
       req = ExtractRequest(tbl, tree, FALSE, FALSE, 0, 0)

NextFilter == AdvancedExtract

SpecFilter == InitFilter /\ [][NextFilter]_vars

(***************************************************************************)
(* Well-formed filter trees: every column resolves, every operator is      *)
(* enumerated, every pattern compiles, every group operator is and / or.   *)
(***************************************************************************)
MatchesX == Cond(ColA, "matches", StrV(<<"x">>))

TreeLeaves == {IsNotNullA, IsNullA, MatchesX}

TreeHeader == <<ColA, <<"b">>>>

\* one row, a tree of up to MaxConds conditions and MaxSubGroups subgroups;
\* the subgroups differ in operator, in length and in depth
SiblingSubGroups ==
  { Group(And, <<IsNotNullA>>, <<>>),
    Group(Or, <<IsNullA>>, <<>>),
    Group(<<"O", "R", " ">>, <<IsNullA, MatchesX>>, <<>>),
    Group(And, <<>>, <<Group(Or, <<>>, <<>>)>>) }

SiblingRows == { <<<<"x">>>>, <<<<"y">>, <<"x">>>>, <<>> }

InitSiblings ==
  /\ pc = "ready"
  /\ res = None
  /\ \E op \in GroupOps, conds \in SeqUpTo(TreeLeaves, MaxConds),
        subs \in SeqUpTo(SiblingSubGroups, MaxSubGroups), row \in SiblingRows :
       req = ExtractRequest(Table(TRUE, TreeHeader, <<row>>), Group(op, conds, subs),
                            FALSE, FALSE, 0, 0)

NextSiblings == AdvancedExtract

SpecSiblings == InitSiblings /\ [][NextSiblings]_vars

\* tables of up to MaxFilterRows rows of unequal length, with and without a
\* header flag, no offset and no limit
TreeRows == { <<<<"x">>>>, <<<<"y">>, <<"x">>>>, <<>> }

InitTree ==
  /\ pc = "ready"
  /\ res = None
  /\ \E tree \in FilterTrees(TreeLeaves), rows \in SeqUpTo(TreeRows, MaxFilterRows),
        hasHeader \in BOOLEAN, limit \in {0, -1} :
       req = ExtractRequest(Table(hasHeader, TreeHeader, rows), tree, FALSE, FALSE,
                            0, limit)

NextTree == AdvancedExtract

SpecTree == InitTree /\ [][NextTree]_vars

(***************************************************************************)
(* Single-condition requests on a one-row table: the operators that have a *)
(* negated form, operands of every type, cells and operands that trimming  *)
(* and case folding change, and every combination of the request-wide and  *)
(* the per-condition flags.                                                *)
(***************************************************************************)
NegatablePairs ==
  { <<"equals", "not_equals">>, <<"contains", "not_contains">>, <<"in", "not_in">> }

NegatableOps == UNION {{p[1], p[2]} : p \in NegatablePairs}

\* the operator with the opposite sign
Negation(op) ==
  CHOOSE o \in NegatableOps : <<op, o>> \in NegatablePairs \/ <<o, op>> \in NegatablePairs

CondCells == { <<"a">>, <<" ", "a">>, <<"a", " ", " ", "b">>, <<"A">>, <<"2">>, <<>> }

CondValues ==
  { NilV, NumV(2), StrV(<<"a">>), StrV(<<"A", " ">>), StrV(<<"b", ",", " ", "a">>),
    StrV(<<"a", " ", "b">>),
    ListV(<<StrV(<<"b">>), StrV(<<"a", " ">>)>>), ListV(<<NumV(2), StrV(<<"A">>)>>) }

Overrides == {"nil", "true", "false"}

InitCond ==
  /\ pc = "ready"
  /\ res = None
  /\ \E op \in NegatableOps, cell \in CondCells, value \in CondValues,
        trim \in BOOLEAN, ci \in BOOLEAN, ptrim \in Overrides, pci \in Overrides :
       req = ExtractRequest(Table(TRUE, <<ColA>>, <<<<cell>>>>),
                            Group(And, <<[Cond(ColA, op, value) EXCEPT
                                            !.trimSpaces = ptrim,
                                            !.caseInsensitive = pci]>>, <<>>),
                            trim, ci, 0, 0)

NextCond == AdvancedExtract

SpecCond == InitCond /\ [][NextCond]_vars

(***************************************************************************)
(* Column identifiers: header names in another case and with blanks        *)
(* around, positions inside and outside the header, a negative position,   *)
(* a position with a blank in front, a name no header holds; headers with  *)
(* duplicate names and with entries that read as positions.                *)
(***************************************************************************)
ResolveKeys ==
  { <<"k">>, <<" ", "K">>, <<"x">>, <<"0">>, <<"1">>, <<" ", "1">>, <<"2">>, <<"3">>,
    <<"-", "1">>, <<"z">>, <<" ">> }

ResolveHeaders ==
  { <<>>,
    <<<<"k">>>>,
    <<<<"x">>, <<"k">>>>,
    <<<<"x">>, <<"K", " ">>, <<"k">>>>,
    <<<<"1">>, <<"x">>, <<"k">>>>,
    <<<<"x">>, <<"0">>>>,
    <<<<"2">>, <<"x">>>> }

\* sorting by different columns orders these rows differently
ResolveRows ==
  { <<<<"b">>, <<"a">>, <<"d">>>>,
    <<<<"a">>, <<"d">>, <<"b">>>>,
    <<<<"d">>, <<"b">>, <<"a">>>>,
    <<<<"a">>>> }

InitResolve ==
  /\ pc = "ready"
  /\ res = None
  /\ \E key \in ResolveKeys, header \in ResolveHeaders, hasHeader \in BOOLEAN,
        rows \in SeqUpTo(ResolveRows, MaxRows) :
       req = [kind     |-> "sort",
              options  |-> [mode |-> "alphabetical", order |-> "asc", key |-> key,
                            trimSpaces |-> FALSE, caseInsensitive |-> FALSE,
                            dateFormat |-> ""],
              datasets |-> [master |-> EmptyTable,
                            lists  |-> <<[name  |-> "t",
                                          table |-> Table(hasHeader, header, rows)]>>]]

NextResolve == AdvancedSort

SpecResolve == InitResolve /\ [][NextResolve]_vars

(***************************************************************************)
(* Filters of one condition whose column is any of the identifiers above,  *)
(* on tables with any of the headers above, with and without the header    *)
(* flag.                                                                   *)
(***************************************************************************)
ColumnRows == { <<<<"x">>, <<>>, <<"x">>>>, <<<<>>, <<"x">>, <<>>>>, <<<<"x">>>> }

InitColumn ==
  /\ pc = "ready"
  /\ res = None
  /\ \E key \in ResolveKeys, header \in ResolveHeaders, hasHeader \in BOOLEAN,
        rows \in SeqUpTo(ColumnRows, MaxFilterRows) :
       req = ExtractRequest(Table(hasHeader, header, rows),
                            Group(And, <<Cond(key, "is_not_null", NilV)>>, <<>>),
                            FALSE, FALSE, 0, 0)

NextColumn == AdvancedExtract

SpecColumn == InitColumn /\ [][NextColumn]_vars

(***************************************************************************)
(* Sort requests on several tables: tables with and without a header, with *)
(* and without rows, under keys that resolve in some tables and not in     *)
(* others; with no list the master table is sorted.                        *)
(***************************************************************************)
MultiRows == << <<<<"b">>>>, <<<<"a">>>> >>

MultiTables ==
  { Table(TRUE, <<<<"k">>>>, MultiRows),
    Table(TRUE, <<<<"x">>>>, MultiRows),
    Table(FALSE, <<>>, MultiRows),
    Table(TRUE, <<<<"k">>>>, <<>>),
    Table(FALSE, <<>>, <<>>) }

MultiKeys == { <<"k">>, <<"0">>, <<"-", "1">>, <<>> }

\* the i-th table of a request is named i
NamedTables(tables) == [i \in 1..Len(tables) |-> [name |-> i, table |-> tables[i]]]

InitMulti ==
  /\ pc = "ready"
  /\ res = None
  /\ \E key \in MultiKeys, mode \in {"alphabetical", "bogus", ""}, order \in {"asc", ""},
        master \in MultiTables, tables \in SeqUpTo(MultiTables, MaxTables) :
       req = [kind     |-> "sort",
              options  |-> [mode |-> mode, order |-> order, key |-> key,
                            trimSpaces |-> FALSE, caseInsensitive |-> FALSE,
                            dateFormat |-> ""],
              datasets |-> [master |-> master, lists |-> NamedTables(tables)]]

NextMulti == AdvancedSort

SpecMulti == InitMulti /\ [][NextMulti]_vars

(***************************************************************************)
(* Calls followed by a write of the caller: filters and sorts on tables of *)
(* rows of unequal length, then one element overwritten in the table       *)
(* passed in or in the table returned.                                     *)
(***************************************************************************)
InitStored ==
  /\ pc = "ready"
  /\ res = None
  /\ \E rows \in SeqUpTo(TreeRows, MaxFilterRows), hasHeader \in BOOLEAN :
       \/ \E offset \in {0, 1}, limit \in {0, 1} :
            req = ExtractRequest(Table(hasHeader, TreeHeader, rows),
                                 Group(And, <<IsNotNullA>>, <<>>), FALSE, FALSE,
                                 offset, limit)
       \/ \E order \in {"asc", "desc"}, key \in {ColA, <<"0">>} :
            req = [kind     |-> "sort",
                   options  |-> [mode |-> "alphabetical", order |-> order, key |-> key,
                                 trimSpaces |-> FALSE, caseInsensitive |-> FALSE,
                                 dateFormat |-> ""],
                   datasets |-> [master |-> EmptyTable,
                                 lists  |-> <<[name  |-> "t",
                                               table |-> Table(hasHeader, TreeHeader,
                                                               rows)]>>]]

NextStored == AdvancedExtractStored \/ AdvancedSortStored \/ WriteElement

SpecStored == InitStored /\ [][NextStored]_vars

(***************************************************************************)
(* The numeric coercions on one text.  tryParseNumber serves the           *)
(* conditions equals / gt / gte / lt / lte, tryParseFloat derives the      *)
(* numeric key of the sort; the call site of each hands it the cell.       *)
(***************************************************************************)
CoerceChars == {"1", "0", ",", " ", "a", "-"}

InitCoerce ==
  /\ pc = "ready"
  /\ res = None
  /\ \E s \in SeqUpTo(CoerceChars, MaxText) : req = [kind |-> "text", text |-> s]

\* both coercions applied to the text
Coerce ==
  /\ pc = "ready"
  /\ req.kind = "text"
  /\ res' = [kind |-> "coerced", number |-> tryParseNumber(req.text),
             float |-> tryParseFloat(req.text)]
  /\ pc' = "done"
  /\ UNCHANGED req

NextCoerce == Coerce

SpecCoerce == InitCoerce /\ [][NextCoerce]_vars

(***************************************************************************)
(* Ordering conditions on a one-row table: gt / gte / lt / lte with        *)
(* operands that are numbers, numerals, dates, years, blank or absent,     *)
(* cells that are numerals, dates or neither, with and without trimming    *)
(* and with and without the year-only date format.                         *)
(***************************************************************************)
OrderingOps == {"gt", "gte", "lt", "lte"}

Day2020 == <<"2","0","2","0","-","0","5","-","0","5">>

Day2021 == <<"2","0","2","1","-","0","1","-","0","1">>

CompareCells ==
  { <<"5">>, <<"2","0","2","1">>, <<" ", "7">>, <<"1", ",", "0">>, Day2020, Day2021,
    <<"a">>, <<>> }

CompareValues ==
  { NumV(5), NumV(2021), StrV(<<"5">>), StrV(<<" ", "5">>), StrV(<<"2","0","2","1">>),
    StrV(Day2021), StrV(Day2021 \o <<" ">>), StrV(<<"a">>), StrV(<<>>), NilV }

InitCompare ==
  /\ pc = "ready"
  /\ res = None
  /\ \E op \in OrderingOps, cell \in CompareCells, value \in CompareValues,
        trim \in BOOLEAN, dateFormat \in {"", "2006"} :
       req = [ExtractRequest(Table(TRUE, <<ColA>>, <<<<cell>>>>),
                             Group(And, <<Cond(ColA, op, value)>>, <<>>),
                             trim, FALSE, 0, 0)
                EXCEPT !.options.dateFormat = dateFormat]

NextCompare == AdvancedExtract

SpecCompare == InitCompare /\ [][NextCompare]_vars

(***************************************************************************)
(* Group operators as written in a request: the two tokens, the same in    *)
(* another case or with blanks around, another word, no text at all.  The  *)
(* operator is that of the root, over a subgroup with the operator and.    *)
(***************************************************************************)
GroupOpTexts ==
  { And, Or, <<"A", "N", "D">>, <<"O", "r">>, <<" ", "a", "n", "d", " ">>,
    <<"o", "r", " ">>, <<"x", "o", "r">>, <<"a", "n", "d", "x">>, <<>> }

InitGroupOp ==
  /\ pc = "ready"
  /\ res = None
  /\ \E op \in GroupOpTexts, conds \in SeqUpTo({IsNotNullA, IsNullA}, MaxConds),
        subs \in {<<>>, <<Group(And, <<IsNotNullA>>, <<>>)>>},
        rows \in SeqUpTo(FilterRows, MaxFilterRows) :
       req = ExtractRequest(Table(TRUE, <<ColA>>, rows), Group(op, conds, subs),
                            FALSE, FALSE, 0, 0)

NextGroupOp == AdvancedExtract

SpecGroupOp == InitGroupOp /\ [][NextGroupOp]_vars

(***************************************************************************)
(* Membership conditions on a one-row table whose operand holds the cell   *)
(* as written: as the only element of a list, as the last of two, as a     *)
(* string, as the last part of a comma-separated string.  The cells have   *)
(* blanks in front, behind and doubled inside, and capitals.               *)
(***************************************************************************)
MemberCells == { <<"a">>, <<" ", "a">>, <<"a", " ">>, <<"a", " ", " ", "b">>, <<"A">>, <<>> }

\* the operands that hold the text c as a candidate
MemberValues(c) ==
  { ListV(<<StrV(c)>>), ListV(<<StrV(<<"b">>), StrV(c)>>), StrV(c),
    StrV(<<"b", ",">> \o c), StrV(<<"a", " ", "b">>), ListV(<<StrV(<<"a", " ", "b">>)>>) }

InitMember ==
  /\ pc = "ready"
  /\ res = None
  /\ \E op \in {"in", "not_in"}, cell \in MemberCells,
        trim \in BOOLEAN, ci \in BOOLEAN, ptrim \in Overrides :
       \E value \in MemberValues(cell) :
         req = ExtractRequest(Table(TRUE, <<ColA>>, <<<<cell>>>>),
                              Group(And, <<[Cond(ColA, op, value) EXCEPT
                                              !.trimSpaces = ptrim]>>, <<>>),
                              trim, ci, 0, 0)

NextMember == AdvancedExtract

SpecMember == InitMember /\ [][NextMember]_vars

(***************************************************************************)
(* Boolean conditions on a one-row table: is_true / is_false on cells of   *)
(* the truthy and the falsy set, the same in capitals and with blanks      *)
(* around, and cells of neither set.                                       *)
(***************************************************************************)
BoolCells ==
  { <<"t","r","u","e">>, <<"1">>, <<"y","e","s">>, <<"y">>, <<"T">>, <<" ", "Y">>,
    <<"f","a","l","s","e">>, <<"0">>, <<"n","o">>, <<"N","O">>, <<"f", " ">>, <<"F">>,
    <<"a">>, <<"2">>, <<"y", " ", "e", "s">>, <<"n", "o", "t">>, <<" ">>, <<>> }

InitBool ==
  /\ pc = "ready"
  /\ res = None
  /\ \E op \in {"is_true", "is_false"}, cell \in BoolCells,
        trim \in BOOLEAN, ci \in BOOLEAN :
       req = ExtractRequest(Table(TRUE, <<ColA>>, <<<<cell>>>>),
                            Group(And, <<Cond(ColA, op, NilV)>>, <<>>), trim, ci, 0, 0)

NextBool == AdvancedExtract

SpecBool == InitBool /\ [][NextBool]_vars

(***************************************************************************)
(* Filter trees that reference columns the header lacks: none, one, the    *)
(* same one twice under different spellings, two different ones, at the    *)
(* root and in subgroups.                                                  *)
(***************************************************************************)
MissingY == Cond(<<"y">>, "is_null", NilV)

MissingYSpelled == Cond(<<" ", "Y">>, "is_not_null", NilV)

MissingLeaves == {IsNotNullA, MissingZ, MissingY, MissingYSpelled}

InitMissing ==
  /\ pc = "ready"
  /\ res = None
  /\ \E tree \in FilterTrees(MissingLeaves), rows \in SeqUpTo(FilterRows, MaxFilterRows) :
       req = ExtractRequest(Table(TRUE, <<ColA>>, rows), tree, FALSE, FALSE, 0, 0)

NextMissing == AdvancedExtract

SpecMissing == InitMissing /\ [][NextMissing]_vars

(***************************************************************************)
(* Sort requests under every spelling of the order: none, the two          *)
(* literals, a capitalised and a long form.                                *)
(***************************************************************************)
OrderTexts == {"", "asc", "desc", "ASC", "ascending"}

InitOrder ==
  /\ pc = "ready"
  /\ res = None
  /\ \E mode \in SortModes, order \in OrderTexts :
       \E rows \in SeqUpTo(RowsFor(mode), MaxRows) :
         req = [kind     |-> "sort",
                options  |-> [mode |-> mode, order |-> order, key |-> <<"k">>,
                              trimSpaces |-> FALSE, caseInsensitive |-> FALSE,
                              dateFormat |-> ""],
                datasets |-> [master |-> EmptyTable,
                              lists  |-> <<[name  |-> "t",
                                            table |-> Table(TRUE, <<<<"k">>>>, rows)]>>]]

NextOrder == AdvancedSort

SpecOrder == InitOrder /\ [][NextOrder]_vars

(***************************************************************************)
(* Properties of AdvancedSort                                              *)
(***************************************************************************)
SortDone == pc = "done" /\ res.kind = "sort" /\ ~res.panic /\ res.error = NoError

\* the tables of the request whose sort succeeded
SortedTables ==
  {t \in 1..Len(res.perList) : res.perList[t].error = NoError}

InTable(t) == SortTables(req.datasets)[t].table

SortIdx(t) == ResolveKeyIndex(InTable(t), req.options.key).idx

\* the rowWrap of input row i of table t
Wrapped(t, i) == wrapRow(InTable(t).rows[i], i, SortIdx(t), EffectiveSortOptions(req))

\* whether the key cell of input row i coerced in the mode of the request
KeyCoerced(t, i) ==
  CASE req.options.mode = "numeric" -> Wrapped(t, i).numOk
    [] req.options.mode = "date"    -> Wrapped(t, i).dateOk
    [] OTHER                        -> FALSE

\* the output position of input row i
PosOf(t, i) == CHOOSE k \in 1..Len(res.perList[t].perm) : res.perList[t].perm[k] = i

CoercionMode == req.options.mode \in {"numeric", "date"}

LessRows(t, i, j) == Less(Wrapped(t, i), Wrapped(t, j), SortIdx(t), EffectiveSortOptions(req))

\* the keys of rows i and j, as the comparator reads them, are equal
KeysEqual(t, i, j) ==
  LET a == Wrapped(t, i)
      b == Wrapped(t, j)
      o == EffectiveSortOptions(req)
  IN  CASE o.mode = "alphabetical" -> a.alphaKey = b.alphaKey
        [] o.mode = "numeric" ->
             \/ a.numOk /\ b.numOk /\ a.numKey = b.numKey
             \/ ~a.numOk /\ ~b.numOk
                  /\ FallbackText(a, SortIdx(t), o) = FallbackText(b, SortIdx(t), o)
        [] o.mode = "date" ->
             \/ a.dateOk /\ b.dateOk /\ a.dateKey = b.dateKey
             \/ ~a.dateOk /\ ~b.dateOk
                  /\ FallbackText(a, SortIdx(t), o) = FallbackText(b, SortIdx(t), o)
        [] OTHER -> KeyCell(a.row, SortIdx(t)) = KeyCell(b.row, SortIdx(t))

\* C2: in every mode and direction two rows with equal keys keep their input
\* order, and the comparator reports neither as less than the other.
C2_Stable ==
  SortDone =>
    \A t \in SortedTables : \A i, j \in 1..Len(InTable(t).rows) :
      (i < j /\ KeysEqual(t, i, j)) =>
        /\ PosOf(t, i) < PosOf(t, j)
        /\ ~LessRows(t, i, j)
        /\ ~LessRows(t, j, i)

\* two rows with equal keys and different text, in a table the sort reordered
C2_Witness ==
  /\ SortDone
  /\ \E t \in SortedTables : \E i, j \in 1..Len(InTable(t).rows) :
       /\ i < j /\ KeysEqual(t, i, j)
       /\ InTable(t).rows[i] # InTable(t).rows[j]
       /\ res.perList[t].result.rows # InTable(t).rows

(***************************************************************************)
(* Properties of AdvancedExtract                                           *)
(***************************************************************************)
\* the call returned, or faulted, past the validation and the row scan
ExtractPassed == pc = "done" /\ res.kind = "extract" /\ res.error = NoError

\* the rows of the request the filter holds for, in input order
MatchedRows ==
  SelectSeq(req.dataset.rows,
            LAMBDA row : evalGroup(req.filter, row, HeaderMap(req.dataset.header),
                                   req.options).ok)

Min(a, b) == IF a < b THEN a ELSE b

PageStart == ClampOffset(req.pagination.offset, Len(MatchedRows))

\* the end bound of the claim, in unbounded arithmetic
PageEnd ==
  IF req.pagination.limit <= 0 THEN Len(MatchedRows)
  ELSE Min(PageStart + req.pagination.limit, Len(MatchedRows))

\* C8 as stated: the page returned is rows[o : e], o the offset clamped to
\* [0, len], e = len when limit <= 0 and min(o + limit, len) otherwise.
C8_PageIsSlice ==
  ExtractPassed =>
    /\ ~res.panic
    /\ res.result.rows = SubSeq(MatchedRows, PageStart + 1, PageEnd)

\* C9 as stated: pagination never faults, and the bounds of the slice it takes
\* satisfy 0 <= start <= end <= len(rows), for every offset and limit.
C9_PageNeverFaults ==
  ExtractPassed =>
    /\ ~res.panic
    /\ 0 <= res.slice.offset
    /\ res.slice.offset <= res.slice.end
    /\ res.slice.end <= Len(MatchedRows)

\* the call returned on a dataset that was present
ExtractDone == pc = "done" /\ res.kind = "extract" /\ ~req.dataset.nilRows

\* the leaf conditions of a tree, at every depth
RECURSIVE Leaves(_)
Leaves(g) ==
  {g.conds[i] : i \in 1..Len(g.conds)}
    \cup UNION {Leaves(g.subGroups[i]) : i \in 1..Len(g.subGroups)}

\* the leaves of the request whose column, blank or not, the header lacks
UnresolvedLeaves ==
  {c \in Leaves(req.filter) : NormCol(c.column) \notin DOMAIN HeaderMap(req.dataset.header)}

\* the leaves of the request whose operator is not enumerated
UnsupportedLeaves == {c \in Leaves(req.filter) : c.operator \notin Operators}

\* the matches leaves of the request whose pattern does not compile
BadPatternLeaves ==
  {c \in Leaves(req.filter) :
     /\ c.operator = "matches"
     /\ ~RegexpCompiles(TrimIf(boolOption(req.options.trimSpaces, c.trimSpaces),
                               FmtV(c.value)))}

\* every group operator of the tree is and / or
RECURSIVE GroupOpsValid(_)
GroupOpsValid(g) ==
  /\ ToLower(TrimSpace(g.op)) \in {And, Or}
  /\ \A i \in 1..Len(g.subGroups) : GroupOpsValid(g.subGroups[i])

ColumnErrors == {"filter column not found", "column not found"}

\* C3 as stated: a request with a leaf, at any depth, whose column (blank
\* included) does not resolve against the header fails with a column-not-found
\* error before any row is evaluated, whatever the rows and the sibling leaves.
C3_EagerColumnCheck ==
  (ExtractDone /\ UnresolvedLeaves # {}) =>
    /\ res.error \in ColumnErrors
    /\ res.scanned = 0

\* C4 as stated: a request with a leaf whose operator is not enumerated, and
\* no other defect, fails with the unsupported-operator error wherever the
\* leaf sits and whatever the rows are.
C4_UnsupportedOperatorFails ==
  (/\ ExtractDone /\ UnsupportedLeaves # {}
   /\ UnresolvedLeaves = {} /\ BadPatternLeaves = {} /\ GroupOpsValid(req.filter)) =>
    res.error = "unsupported operator"

\* C5 as stated: a request with a matches leaf whose pattern does not compile,
\* and no other defect, fails with the invalid-pattern error whatever the rows
\* and the sibling leaves are.
C5_InvalidPatternFails ==
  (/\ ExtractDone /\ BadPatternLeaves # {}
   /\ UnresolvedLeaves = {} /\ UnsupportedLeaves = {} /\ GroupOpsValid(req.filter)) =>
    res.error = "invalid regex"

\* the filter of the request is well-formed
WellFormed ==
  /\ GroupOpsValid(req.filter)
  /\ UnresolvedLeaves = {}
  /\ UnsupportedLeaves = {}
  /\ BadPatternLeaves = {}

\* the orders a sequence can be put in
Perms(s) ==
  {[i \in 1..Len(s) |-> s[f[i]]] :
     f \in {h \in [1..Len(s) -> 1..Len(s)] :
              \A i, j \in 1..Len(s) : h[i] = h[j] => i = j}}

\* one reordering of each member of a sequence of groups
RECURSIVE Reorderings(_)
ReorderedMembers(gs) ==
  {ss \in [1..Len(gs) -> UNION {Reorderings(gs[i]) : i \in 1..Len(gs)}] :
     \A i \in 1..Len(gs) : ss[i] \in Reorderings(gs[i])}

\* the trees got from g by permuting sibling conditions and sibling subgroups
\* within any group
Reorderings(g) ==
  {Group(g.op, cs, ps) :
     cs \in Perms(g.conds),
     ps \in UNION {Perms(ss) : ss \in ReorderedMembers(g.subGroups)}}

EvalRow(g, i) ==
  evalGroup(g, req.dataset.rows[i], HeaderMap(req.dataset.header), req.options)

\* C6: for a well-formed tree and every row, permuting sibling conditions and
\* sibling subgroups within any group leaves the result of evalGroup, and so
\* the response to the request, unchanged.
C6_SiblingOrderIrrelevant ==
  (ExtractDone /\ WellFormed) =>
    \A g \in Reorderings(req.filter) :
      /\ \A i \in 1..Len(req.dataset.rows) : EvalRow(g, i) = EvalRow(req.filter, i)
      /\ res \in AdvancedExtractResponses([req EXCEPT !.filter = g])

\* a group whose first two conditions, and whose first two subgroups, disagree
\* on the row
C6_Witness ==
  /\ ExtractDone /\ WellFormed
  /\ Len(req.dataset.rows) = 1
  /\ Len(req.filter.conds) >= 2 /\ Len(req.filter.subGroups) >= 2
  /\ EvalRow(Group(And, <<req.filter.conds[1]>>, <<>>), 1).ok
       # EvalRow(Group(And, <<req.filter.conds[2]>>, <<>>), 1).ok
  /\ EvalRow(req.filter.subGroups[1], 1).ok # EvalRow(req.filter.subGroups[2], 1).ok
  /\ \E g \in Reorderings(req.filter) : g # req.filter

\* the single condition of the request, and its only row
TheCond == req.filter.conds[1]

SingleCond ==
  /\ ExtractDone
  /\ Len(req.filter.conds) = 1 /\ req.filter.subGroups = <<>>
  /\ ToLower(TrimSpace(req.filter.op)) \in {And, Or}
  /\ Len(req.dataset.rows) = 1
  /\ req.pagination = [offset |-> 0, limit |-> 0]

\* the verdict of evalCondition on the row for the operator of opposite sign
NegatedVerdict ==
  evalCondition([TheCond EXCEPT !.operator = Negation(TheCond.operator)],
                req.dataset.rows[1], HeaderMap(req.dataset.header), req.options)

\* C7: for every row, operand and combination of trim / case-insensitivity
\* flags, a condition with not_equals, not_contains or not_in holds exactly
\* when the one with equals, contains or in does not, and conversely.
C7_NegatedOperators ==
  (SingleCond /\ TheCond.operator \in NegatableOps /\ UnresolvedLeaves = {}) =>
    /\ res.error = NoError
    /\ NegatedVerdict.err = NoError
    /\ (res.result.rows = req.dataset.rows) <=> ~NegatedVerdict.ok
    /\ (res.result.rows = <<>>) <=> NegatedVerdict.ok

\* a not_in on a list whose entry matches the cell only once trimmed and folded
C7_Witness ==
  /\ SingleCond /\ TheCond.operator = "not_in"
  /\ TheCond.value = ListV(<<StrV(<<"b">>), StrV(<<"a", " ">>)>>)
  /\ boolOption(req.options.trimSpaces, TheCond.trimSpaces)
  /\ boolOption(req.options.caseInsensitive, TheCond.caseInsensitive)
  /\ req.dataset.rows[1] = <<<<"A">>>>
  /\ res.result.rows = <<>>
  /\ NegatedVerdict.ok

\* C10: a well-formed filter that is true for every row, with offset 0 and no
\* limit, returns every input row, cells and order unchanged, under the header
\* of the input.
C10_AlwaysTrueKeepsTable ==
  (/\ ExtractDone /\ WellFormed
   /\ req.pagination.offset = 0 /\ req.pagination.limit <= 0
   /\ \A i \in 1..Len(req.dataset.rows) : EvalRow(req.filter, i).ok) =>
    /\ ~res.panic
    /\ res.error = NoError
    /\ res.result.rows = req.dataset.rows
    /\ res.result.header = req.dataset.header
    /\ res.result.hasHeader = req.dataset.hasHeader
    /\ res.summary.matched = Len(req.dataset.rows)

\* a table of rows of different length, all kept by a filter with a subgroup
C10_Witness ==
  /\ ExtractDone /\ WellFormed
  /\ req.pagination.offset = 0 /\ req.pagination.limit < 0
  /\ Len(req.dataset.rows) >= 2
  /\ Len(req.dataset.rows[1]) # Len(req.dataset.rows[2])
  /\ req.filter.subGroups # <<>>
  /\ \A i \in 1..Len(req.dataset.rows) : EvalRow(req.filter, i).ok
  /\ res.result.rows = req.dataset.rows

\* C11: when AdvancedExtract fails, for whatever reason and after however many
\* rows have matched, the response carries the error and an empty result: no
\* row, no header, and a summary of zeros.
C11_FailureHasNoRows ==
  (pc = "done" /\ res.kind = "extract" /\ res.error # NoError) =>
    /\ ~res.panic
    /\ res.result = EmptyTable
    /\ res.summary = [processed |-> 0, matched |-> 0, missing |-> 0]

\* a failure met on the second row, after the first row had matched
C11_Witness ==
  /\ ExtractDone /\ res.error = "invalid group op"
  /\ res.scanned = 2
  /\ EvalRow(req.filter, 1).ok
  /\ res.result.rows = <<>>

\* the call of AdvancedSort returned or faulted
SortCalled == pc = "done" /\ res.kind = "sort"

\* the only table of the request and the identifier to resolve
TheTable == InTable(1)

TheKey == req.options.key

OneTable == SortCalled /\ Len(SortTables(req.datasets)) = 1

\* the header positions, zero-based, whose trimmed entry is the trimmed
\* identifier up to case
NameHits ==
  {i - 1 : i \in {j \in 1..Len(TheTable.header) :
                    ToLower(TrimSpace(TheTable.header[j])) = ToLower(TrimSpace(TheKey))}}

\* the identifier read as an integer
KeyNumber == Atoi(TheKey)

\* the rows of the table sorted on column idx
SortedOn(idx) == sortResolved(TheTable, EffectiveSortOptions(req), Resolved(idx))

\* the entry of the table reports success with the rows sorted on column idx
ResolvedTo(idx) ==
  /\ ~res.panic
  /\ res.error = NoError
  /\ res.perList[1].error = NoError
  /\ res.perList[1].perm = SortedOn(idx).perm
  /\ res.perList[1].result = SortedOn(idx).out

\* the entry of the table reports a failure
ResolutionFailed ==
  /\ ~res.panic
  /\ res.error = NoError
  /\ res.perList[1].error # NoError

\* C12: with a header, the identifier resolves to the first header entry equal
\* to it after trimming and up to case; failing that, to the position it spells
\* when that is an integer i with 0 <= i < headerLength; otherwise resolution
\* fails.  A matching name wins over the reading as a position.
C12_HeaderResolution ==
  (OneTable /\ TheTable.hasHeader) =>
    IF NameHits # {}
    THEN ResolvedTo(CHOOSE i \in NameHits : \A j \in NameHits : i <= j)
    ELSE IF KeyNumber.ok /\ 0 <= KeyNumber.v /\ KeyNumber.v < Len(TheTable.header)
    THEN ResolvedTo(KeyNumber.v)
    ELSE ResolutionFailed

\* the identifier "1" names the first header entry and spells the second
\* position: the rows come back sorted on the first column, not the second
C12_Witness ==
  /\ OneTable /\ TheTable.hasHeader
  /\ TheKey = <<"1">> /\ NameHits = {0} /\ Len(TheTable.header) > 1
  /\ ResolvedTo(0)
  /\ SortedOn(0).perm # SortedOn(1).perm

\* C13 as stated: without a header the identifier resolves only when it is a
\* non-negative integer; a negative or non-numeric identifier is reported in
\* the error field of the table's entry, and no row is indexed at a negative
\* position.
C13_HeaderlessResolution ==
  (OneTable /\ ~TheTable.hasHeader) =>
    IF KeyNumber.ok /\ 0 <= KeyNumber.v
    THEN ResolvedTo(KeyNumber.v)
    ELSE ResolutionFailed

\* the Column Resolver on the column of the single condition of the request
CondResolved == ResolveKeyIndex(req.dataset, TheCond.column)

\* the rows the condition keeps when it reads the cell at position idx
KeptAt(idx) ==
  SelectSeq(req.dataset.rows,
            LAMBDA row : evalResolved(TheCond, row, idx,
                                      boolOption(req.options.trimSpaces,
                                                 TheCond.trimSpaces),
                                      req.options).ok)

\* C14 as stated: the filter reads the column at the position the Column
\* Resolver gives for the identifier, and fails with column-not-found exactly
\* when the resolver fails.
C14_FilterResolvesAsResolver ==
  (ExtractDone /\ Len(req.filter.conds) = 1 /\ req.filter.subGroups = <<>>) =>
    IF CondResolved.err # NoError
    THEN res.error \in ColumnErrors
    ELSE /\ res.error = NoError
         /\ res.result.rows = KeptAt(CondResolved.idx)

\* the request passed the validation of its options and names a table
SortAccepted ==
  /\ SortCalled
  /\ req.options.mode # "" /\ req.options.key # <<>>
  /\ SortTables(req.datasets) # <<>>

\* sortSingleTable on table t of the request, by itself
Alone(t) == sortSingleTable(InTable(t), EffectiveSortOptions(req))

\* the tables of the request whose sort, by itself, succeeds
Succeeding == {t \in 1..Len(SortTables(req.datasets)) : Alone(t).err = NoError}

RECURSIVE RowsIn(_)
RowsIn(ts) ==
  IF ts = {} THEN 0
  ELSE LET t == CHOOSE x \in ts : TRUE IN Len(InTable(t).rows) + RowsIn(ts \ {t})

\* C15 as stated: the call returns no error, with one entry per table in input
\* order; the entry of a table whose sort fails carries its error, the entry
\* of every other table its sorted rows, and the totals count the rows of the
\* tables that succeeded.
C15_FailuresIsolated ==
  SortAccepted =>
    /\ ~res.panic
    /\ res.error = NoError
    /\ Len(res.perList) = Len(SortTables(req.datasets))
    /\ \A t \in 1..Len(res.perList) :
         /\ res.perList[t].name = SortTables(req.datasets)[t].name
         /\ IF t \in Succeeding
            THEN /\ res.perList[t].error = NoError
                 /\ res.perList[t].result = Alone(t).out
                 /\ res.perList[t].processed = Len(InTable(t).rows)
            ELSE /\ res.perList[t].error # NoError
                 /\ res.perList[t].result.rows = <<>>
    /\ res.summary.tables_count = Len(res.perList)
    /\ res.summary.processed_total = RowsIn(Succeeding)
    /\ res.summary.sorted_total = RowsIn(Succeeding)

\* C16: a successful filter response counts every input row as processed, the
\* rows the tree holds for as matched and the rest as missing, and returns the
\* paginated slice of the matched rows in input order.
C16_SummaryAndPage ==
  (ExtractPassed /\ ~res.panic) =>
    /\ res.summary.processed = Len(req.dataset.rows)
    /\ res.summary.matched = Len(MatchedRows)
    /\ res.summary.missing = res.summary.processed - res.summary.matched
    /\ res.result.rows = SubSeq(MatchedRows, PageStart + 1, PageEnd)

\* two rows of which the second matches and is returned
C16_Witness ==
  /\ ExtractPassed /\ ~res.panic
  /\ Len(req.dataset.rows) = 2
  /\ MatchedRows = <<req.dataset.rows[2]>>
  /\ res.summary = [processed |-> 2, matched |-> 1, missing |-> 1]
  /\ res.result.rows = MatchedRows
  /\ req.pagination.limit = 1

\* the call returned with its storage, and possibly the caller wrote since
StoredDone == pc \in {"done", "written"} /\ res.kind = "stored"

\* the table of the request, as it was when the call was made
PassedIn == IF req.kind = "extract" THEN req.dataset ELSE SortTables(req.datasets)[1].table

\* the table of the response
Returned ==
  IF req.kind = "extract" THEN res.response.result ELSE res.response.perList[1].result

InputArrays == ArraysOf(res.heap, res.input)

OutputArrays == ArraysOf(res.heap, res.output)

\* C17: AdvancedExtract and AdvancedSort leave the table passed in as it was,
\* and the header and the rows of the table returned are copies: no array is
\* shared, so a later write to the returned table does not change the table
\* passed in, nor a write to the table passed in the returned one.
C17_CopiesNotAliases ==
  StoredDone =>
    /\ pc = "done" =>
         /\ Deref(res.heap, res.input) = PassedIn
         /\ InputArrays \cap OutputArrays = {}
         /\ res.output # NoTable => res.returned = Returned
    /\ (pc = "written" /\ res.written \in OutputArrays) =>
         Deref(res.heap, res.input) = PassedIn
    /\ (pc = "written" /\ res.written \in InputArrays /\ res.output # NoTable) =>
         Deref(res.heap, res.output) = res.returned

\* a cell of a returned row overwritten: the returned table changed, the
\* table passed in did not
C17_Witness ==
  /\ StoredDone /\ pc = "written"
  /\ res.output # NoTable
  /\ res.written \in OutputArrays \ {res.output.header, res.output.rows}
  /\ Len(res.heap[res.output.rows]) = 2
  /\ Deref(res.heap, res.output) # res.returned
  /\ Deref(res.heap, res.input) = PassedIn

\* the key cell, as written, of output row k of table t
RawKeyOut(t, k) == KeyCell(res.perList[t].result.rows[k], SortIdx(t))

KnownModes == {"alphabetical", "numeric", "date"}

\* C18 as stated: with an unknown, non-empty mode the call reports no error and
\* the rows come back in ascending lexicographic order of the raw key cell,
\* whatever the requested order.
C18_UnknownModeAscending ==
  (SortAccepted /\ req.options.mode \notin KnownModes) =>
    /\ ~res.panic
    /\ res.error = NoError
    /\ \A t \in 1..Len(res.perList) :
         /\ res.perList[t].error = NoError
         /\ \A k \in 1..(Len(res.perList[t].result.rows) - 1) :
              ~StrLess(RawKeyOut(t, k + 1), RawKeyOut(t, k))

\* the derived key of a row in alphabetical mode: the key cell ("" when the
\* row is too short), trimmed on request, then lower-cased on request
AlphaKeyOf(row, idx, opts) ==
  LET cell    == IF idx < Len(row) THEN row[idx + 1] ELSE <<>>
      trimmed == IF opts.trimSpaces THEN TrimSpace(cell) ELSE cell
  IN  IF opts.caseInsensitive THEN ToLower(trimmed) ELSE trimmed

AlphaKeyOut(t, k) == AlphaKeyOf(res.perList[t].result.rows[k], SortIdx(t), req.options)

\* the output rows of table t are the input rows, each once
Rearranged(t) ==
  /\ Len(res.perList[t].result.rows) = Len(InTable(t).rows)
  /\ \A i \in 1..Len(InTable(t).rows) :
       \E k \in 1..Len(res.perList[t].perm) : res.perList[t].perm[k] = i
  /\ \A k \in 1..Len(res.perList[t].perm) :
       res.perList[t].result.rows[k] = InTable(t).rows[res.perList[t].perm[k]]

\* C19: in alphabetical mode the output is the input rearranged so that the
\* derived keys never decrease under asc and never increase under desc.
C19_AlphabeticalOrder ==
  (SortDone /\ req.options.mode = "alphabetical" /\ req.options.order \in {"asc", "desc"}) =>
    \A t \in SortedTables :
      /\ Rearranged(t)
      /\ \A k \in 1..(Len(res.perList[t].result.rows) - 1) :
           IF req.options.order = "asc"
           THEN ~StrLess(AlphaKeyOut(t, k + 1), AlphaKeyOut(t, k))
           ELSE ~StrLess(AlphaKeyOut(t, k), AlphaKeyOut(t, k + 1))

\* a descending sort under trimming and case folding that moved rows whose
\* raw cells are ordered the other way
C19_Witness ==
  /\ SortDone /\ req.options.mode = "alphabetical" /\ req.options.order = "desc"
  /\ req.options.trimSpaces /\ req.options.caseInsensitive
  /\ \E t \in SortedTables :
       /\ Len(InTable(t).rows) = 3
       /\ res.perList[t].result.rows # InTable(t).rows
       /\ \E k \in 1..2 :
            /\ StrLess(AlphaKeyOut(t, k + 1), AlphaKeyOut(t, k))
            /\ StrLess(RawKeyOut(t, k), RawKeyOut(t, k + 1))

\* the key cell of input row i as the numeric coercion receives it
NumericInput(t, i) ==
  TrimIf(req.options.trimSpaces, KeyCell(InTable(t).rows[i], SortIdx(t)))

\* C20 as stated: the numeric coercion gives an outcome for every cell text
\* and never faults; a cell that is empty or blank, as written or once its
\* commas are removed, fails to coerce.
C20_NumericCoercionTotal ==
  (SortAccepted /\ req.options.mode = "numeric") =>
    /\ ~res.panic
    /\ \A t \in SortedTables : \A i \in 1..Len(InTable(t).rows) :
         TrimSpace(RemoveChar(NumericInput(t, i), ",")) = <<>> => ~KeyCoerced(t, i)

(***************************************************************************)
(* Properties of the coercions                                             *)
(***************************************************************************)
CoerceDone == pc = "done" /\ res.kind = "coerced"

\* C21 as stated: on every text the coercion of the conditions succeeds
\* exactly when the numeric key derivation of the sort succeeds, and then both
\* yield the same number.
C21_SameNumericCoercion ==
  (CoerceDone /\ ~res.float.panic) =>
    /\ res.number.ok = res.float.ok
    /\ res.number.ok => res.number.v = res.float.v

\* the cell of the only row as evalCondition reads it
TheCell ==
  CollapseIf(boolOption(req.options.trimSpaces, TheCond.trimSpaces),
             CellAt(req.dataset.rows[1], HeaderMap(req.dataset.header)[NormCol(TheCond.column)]))

\* the operand as text, trimmed when trimming is in effect
OperandText ==
  TrimIf(boolOption(req.options.trimSpaces, TheCond.trimSpaces), FmtV(TheCond.value))

\* the operand as a number: a number itself, or text that parses as one
OperandNumber ==
  IF TheCond.value.t = "num" THEN [ok |-> TRUE, v |-> TheCond.value.n]
  ELSE tryParseNumber(OperandText)

CellNumber == tryParseNumber(TheCell)

CellDate == tryParseDate(TheCell, req.options.dateFormat)

OperandDate == tryParseDate(FmtV(TheCond.value), req.options.dateFormat)

\* numbers first, then dates, else false
OrderingReference ==
  IF CellNumber.ok /\ OperandNumber.ok
  THEN CmpNum(TheCond.operator, CellNumber.v, OperandNumber.v)
  ELSE IF CellDate.ok /\ OperandDate.ok
  THEN CmpTime(TheCond.operator, CellDate.t, OperandDate.t)
  ELSE FALSE

\* C22 as stated: gt / gte / lt / lte never fail; the verdict is the numeric
\* comparison when cell and operand both coerce as numbers, else the
\* chronological comparison when both coerce as dates under the date format
\* of the request, else false.
C22_OrderingOperators ==
  (SingleCond /\ TheCond.operator \in OrderingOps /\ UnresolvedLeaves = {}) =>
    /\ res.error = NoError
    /\ (res.result.rows = req.dataset.rows) <=> OrderingReference
    /\ (res.result.rows = <<>>) <=> ~OrderingReference

\* the reference: an and group holds when all of its conditions and subgroups
\* hold, an or group when one of them does
RECURSIVE GroupHolds(_, _)
GroupHolds(g, row) ==
  LET conds == {evalCondition(g.conds[i], row, HeaderMap(req.dataset.header),
                              req.options).ok : i \in 1..Len(g.conds)}
      subs  == {GroupHolds(g.subGroups[i], row) : i \in 1..Len(g.subGroups)}
  IN  IF ToLower(TrimSpace(g.op)) = And
      THEN \A b \in conds \cup subs : b
      ELSE \E b \in conds \cup subs : b

\* C23: for a well-formed tree the verdict of evalGroup on every row is that of
\* the recursive reference, and the rows returned are those the reference
\* holds for; an and group with no member keeps every row, an or group with no
\* member keeps none.
C23_GroupReference ==
  (ExtractDone /\ WellFormed /\ req.pagination.offset = 0 /\ req.pagination.limit <= 0) =>
    /\ res.error = NoError
    /\ \A i \in 1..Len(req.dataset.rows) :
         EvalRow(req.filter, i) = Verdict(GroupHolds(req.filter, req.dataset.rows[i]))
    /\ res.result.rows = SelectSeq(req.dataset.rows, LAMBDA row : GroupHolds(req.filter, row))
    /\ (req.filter.conds = <<>> /\ req.filter.subGroups = <<>>) =>
         res.result.rows = IF req.filter.op = And THEN req.dataset.rows ELSE <<>>

\* an and group whose conditions hold for the first row and whose subgroup,
\* itself holding a subgroup, does not: the row is not returned
C23_Witness ==
  /\ ExtractDone /\ WellFormed
  /\ req.filter.op = And
  /\ Len(req.filter.conds) = 2 /\ Len(req.filter.subGroups) = 1
  /\ req.filter.subGroups[1].subGroups # <<>>
  /\ Len(req.dataset.rows) = 2
  /\ EvalRow(Group(And, req.filter.conds, <<>>), 1).ok
  /\ ~EvalRow(req.filter.subGroups[1], 1).ok
  /\ EvalRow(req.filter, 2).ok
  /\ res.result.rows = <<req.dataset.rows[2]>>

\* C24 as stated: a request whose root group has an operator other than the
\* exact tokens and / or fails, on a table with a row, with the invalid group
\* operator error.
C24_GroupOperatorExact ==
  (ExtractDone /\ req.dataset.rows # <<>> /\ req.filter.op \notin {And, Or}) =>
    res.error = "invalid group op"

\* the candidates of an in / not_in operand: the elements of a list, the
\* comma-separated parts of any other operand
Candidates(value) ==
  IF value.t = "list" THEN FmtAll(value.l) ELSE Split(FmtV(value), ",")

\* the normalisation of the cell under the flags in effect for the condition
AsCell(s) ==
  FoldIf(boolOption(req.options.caseInsensitive, TheCond.caseInsensitive),
         CollapseIf(boolOption(req.options.trimSpaces, TheCond.trimSpaces), s))

\* some candidate, normalised as the cell is, equals the normalised cell
Listed ==
  \E i \in 1..Len(Candidates(TheCond.value)) :
    AsCell(Candidates(TheCond.value)[i]) = AsCell(req.dataset.rows[1][1])

\* C25 as stated: in holds, and not_in does not, exactly when some candidate
\* normalised as the cell is (trimmed by the cell's trimming function iff
\* trimming is in effect, case-folded iff case-insensitivity is) equals the
\* normalised cell; so a candidate identical to the raw cell always matches.
C25_CandidatesAsCell ==
  (SingleCond /\ TheCond.operator \in {"in", "not_in"} /\ TheCond.value.t # "nil") =>
    /\ res.error = NoError
    /\ (res.result.rows = req.dataset.rows) <=> (Listed <=> TheCond.operator = "in")

\* whether the condition of the request, put with the operator op, holds for
\* the row: read off the response for the operator of the request itself
HoldsWith(op) ==
  IF op = TheCond.operator THEN res.result.rows = req.dataset.rows
  ELSE evalCondition([TheCond EXCEPT !.operator = op], req.dataset.rows[1],
                     HeaderMap(req.dataset.header), req.options).ok

BoolCond == SingleCond /\ TheCond.operator \in {"is_true", "is_false"}

\* C26 as stated: is_true and is_false are never both true, and both are
\* false exactly when the cell, compared case-insensitively, is in neither the
\* truthy nor the falsy set.
C26_BooleanOperators ==
  BoolCond =>
    /\ res.error = NoError
    /\ ~(HoldsWith("is_true") /\ HoldsWith("is_false"))
    /\ (~HoldsWith("is_true") /\ ~HoldsWith("is_false"))
         <=> ToLower(req.dataset.rows[1][1]) \notin TrueSet \cup FalseSet

\* C26 amended: is_true and is_false are never both true, and both are false
\* exactly when the cell, lower-cased and with surrounding whitespace removed
\* (whatever the trimming flags), is in neither the truthy nor the falsy set.
C26_BooleanOperatorsTrimmed ==
  BoolCond =>
    /\ res.error = NoError
    /\ ~(HoldsWith("is_true") /\ HoldsWith("is_false"))
    /\ (~HoldsWith("is_true") /\ ~HoldsWith("is_false"))
         <=> TrimSpace(ToLower(req.dataset.rows[1][1])) \notin TrueSet \cup FalseSet

\* trimming disabled, a cell that is truthy only once trimmed and lower-cased:
\* is_true keeps the row
C26_Witness ==
  /\ BoolCond /\ TheCond.operator = "is_true"
  /\ ~req.options.trimSpaces
  /\ req.dataset.rows[1][1] = <<" ", "Y">>
  /\ res.result.rows = req.dataset.rows
  /\ ~HoldsWith("is_false")

\* the key cell of output row k of table t, trimmed and case-folded as the
\* options of the request ask
FailedKeyOut(t, k) ==
  FoldIf(req.options.caseInsensitive,
         TrimIf(req.options.trimSpaces, RawKeyOut(t, k)))

\* output row k of table t is a row whose key did not coerce
FailedOut(t, k) == ~KeyCoerced(t, res.perList[t].perm[k])

\* C27 as stated: in numeric and date mode the rows whose key did not coerce
\* come out ordered by their key cell text, trimmed iff trimSpaces and
\* case-folded iff caseInsensitive: never decreasing under asc, never
\* increasing under desc.
C27_FailedRowsAlphabetical ==
  (SortDone /\ CoercionMode) =>
    \A t \in SortedTables : \A k, l \in 1..Len(res.perList[t].result.rows) :
      (k < l /\ FailedOut(t, k) /\ FailedOut(t, l)) =>
        IF req.options.order = "asc"
        THEN ~StrLess(FailedKeyOut(t, l), FailedKeyOut(t, k))
        ELSE ~StrLess(FailedKeyOut(t, k), FailedKeyOut(t, l))

\* how often the row r occurs in rows
Occurrences(rows, r) == Cardinality({i \in 1..Len(rows) : rows[i] = r})

\* both sequences hold the same rows, each as often
SameRows(a, b) ==
  /\ Len(a) = Len(b)
  /\ \A i \in 1..Len(a) : Occurrences(a, a[i]) = Occurrences(b, a[i])

\* C28: for every table that sorts successfully the output rows are the input
\* rows, each as often and with its cells unchanged, hasHeader and header are
\* those of the input, and processed = sorted = the number of input rows.
C28_SortPermutes ==
  SortDone =>
    \A t \in SortedTables :
      /\ SameRows(res.perList[t].result.rows, InTable(t).rows)
      /\ res.perList[t].result.hasHeader = InTable(t).hasHeader
      /\ res.perList[t].result.header = InTable(t).header
      /\ res.perList[t].processed = Len(InTable(t).rows)
      /\ res.perList[t].sorted = Len(InTable(t).rows)

\* a headerless table of three rows of different length, two of them equal,
\* that the sort reordered
C28_Witness ==
  /\ SortDone
  /\ \E t \in SortedTables :
       /\ ~InTable(t).hasHeader /\ InTable(t).header # <<>>
       /\ Len(InTable(t).rows) = 3
       /\ InTable(t).rows[1] = InTable(t).rows[3]
       /\ Len(InTable(t).rows[2]) # Len(InTable(t).rows[1])
       /\ res.perList[t].result.rows # InTable(t).rows
       /\ res.perList[t].sorted = 3

\* C29 as stated: the response to a request is determined by the request: any
\* response AdvancedExtract can give to the request of this run is the
\* response of this run, error and column named in it included.
C29_ExtractDeterministic ==
  ExtractDone => \A other \in AdvancedExtractResponses(req) : other = res

\* the direction the claim gives an order value: ascending for no order and
\* for the literal asc, descending for anything else
Ascending == req.options.order \in {"", "asc"}

\* C30: no order value is rejected; the response is that of the same request
\* with order asc when the order is empty or asc, and with order desc for any
\* other value; in alphabetical mode the keys then never decrease, resp. never
\* increase, down the output.
C30_OrderValues ==
  SortCalled =>
    /\ res.error = NoError
    /\ res = AdvancedSortResponse(
               [req EXCEPT !.options.order = IF Ascending THEN "asc" ELSE "desc"])
    /\ (req.options.mode = "alphabetical" /\ ~res.panic) =>
         \A t \in SortedTables : \A k \in 1..(Len(res.perList[t].result.rows) - 1) :
           IF Ascending
           THEN ~StrLess(AlphaKeyOut(t, k + 1), AlphaKeyOut(t, k))
           ELSE ~StrLess(AlphaKeyOut(t, k), AlphaKeyOut(t, k + 1))

\* order ASC: three rows given in ascending order come back in descending order
C30_Witness ==
  /\ SortCalled /\ req.options.order = "ASC" /\ req.options.mode = "alphabetical"
  /\ res.error = NoError
  /\ \E t \in SortedTables :
       /\ Len(InTable(t).rows) = 3
       /\ StrLess(KeyCell(InTable(t).rows[1], 0), KeyCell(InTable(t).rows[2], 0))
       /\ StrLess(KeyCell(InTable(t).rows[2], 0), KeyCell(InTable(t).rows[3], 0))
       /\ res.perList[t].result.rows
            = <<InTable(t).rows[3], InTable(t).rows[2], InTable(t).rows[1]>>

====
